---- MODULE Spec2Model ----
(***************************************************************************)
(* Model of the authenticated-request / caching layer of the Sankhya       *)
(* sales-force application:                                                *)
(*   - CacheService        (in-process cache, cache-service.ts)            *)
(*   - RedisCacheService   (durable-backed cache, redis-cache-service.ts)  *)
(*   - obterToken / fazerRequisicaoAutenticada / buscarPrecoProduto        *)
(*                         (produtos-service.ts)                           *)
(*   - consultarProdutos / consultarEstoqueProduto (produtos-service.ts)   *)
(*   - POST /api/sankhya/produtos/batch-info (route.ts)                    *)
(*   - mapearEntidades and the stock total (produtos-service.ts)           *)
(*   - GET of the orders route                                             *)
(*   - the products table component (ProductsTable)                        *)
(* The specifications share the variables: SpecCache, SpecRedis, SpecSwap  *)
(* (the caches), Spec (token manager, executor and price lookup),          *)
(* SpecQuery (stock lookup and listing), SpecPrice (price lookup over      *)
(* time), SpecRace (two lookups at once), SpecListing (pagination),        *)
(* SpecExec (the executor alone), SpecRefresh and SpecCred (callers racing *)
(* on the credential), SpecBatch (the batch route), SpecNorm               *)
(* (mapearEntidades), SpecTotal (the stock total), SpecOrders (the orders  *)
(* route) and SpecTable (the products table).                              *)
(***************************************************************************)
EXTENDS Integers, Sequences, FiniteSets, TLC

VARIABLES
    now,          \* Date.now(), in milliseconds
    cache,        \* CacheService.cache : Map<string, CacheEntry>
    lastSet,      \* history (CacheService): per key, the arguments and time of the latest
                  \*   set not followed by a delete / invalidatePattern of that key;
                  \*   in Spec, SpecQuery and SpecPrice: per request key, the latest result a query
                  \*   function obtained from the ERP and when
    ret,          \* the latest cache call and what it returned
    memoryCache,  \* RedisCacheService.memoryCache
    redis,        \* the keys held by the Redis server
    useRedis,     \* RedisCacheService.useRedis (with redisClient set)
    cachedToken,  \* produtos-service.ts: let cachedToken
    nextToken,    \* the token the next successful login answers with
    proc,         \* per caller: position and locals of its running call
    calls         \* number of top-level calls started so far

cacheVars == <<now, cache, lastSet, ret>>
redisVars == <<memoryCache, redis, useRedis>>
execVars  == <<cachedToken, nextToken, proc, calls>>
vars      == <<now, cache, lastSet, ret, memoryCache, redis, useRedis,
               cachedToken, nextToken, proc, calls>>

----------------------------------------------------------------------------
(* Bounds of the model *)

\* largest small ttl (ms) a caller passes to set; 0 is included
MaxTTL == 1
\* the clock runs to defaultTTL + MaxSkew
MaxSkew == 1

----------------------------------------------------------------------------
(* Strings are sequences of characters, so that substring tests are real *)

Keys == { <<"a", "b">>, <<"b", "?">> }
Patterns == { <<"b">>, <<"a", "b">>, <<"?">>, <<"b", "a">> }
Values == { "v1", "v2" }

\* String.prototype.includes: p occurs in k as a literal substring
Includes(k, p) ==
    \E i \in 0 .. (Len(k) - Len(p)) :
        \A j \in 1 .. Len(p) : k[i + j] = p[j]

\* Math.min
Min(a, b) == IF a < b THEN a ELSE b

\* a JS null result, and a non-null result carrying data
Null == [null |-> TRUE]
Some(d) == [null |-> FALSE, data |-> d]

\* the optional ttl argument of set: absent, or a number of milliseconds
NoTTL == [given |-> FALSE, ms |-> 0]
GivenTTL(n) == [given |-> TRUE, ms |-> n]
TtlArgs == { NoTTL } \cup { GivenTTL(n) : n \in 0 .. MaxTTL }

----------------------------------------------------------------------------
(* CacheService (in-process) *)

\* private defaultTTL = 5 * 60 * 1000
defaultTTL == 5 * 60 * 1000

\* ttl || this.defaultTTL : an absent ttl and a ttl of 0 are both falsy
TtlOrDefault(ttl) == IF ttl.given /\ ttl.ms # 0 THEN ttl.ms ELSE defaultTTL

\* the entry set() builds
NewEntry(data, ttl, t) == [data |-> data, timestamp |-> t, ttl |-> TtlOrDefault(ttl)]

\* a set that keeps the entry a key already has
MapSet_KeepExisting(m, k, e) ==
    [x \in (DOMAIN m) \cup {k} |-> IF x \in DOMAIN m THEN m[x] ELSE e]

\* Map.set / Map.delete on a function whose domain is the keys present
MapSet(m, k, e) == [x \in (DOMAIN m) \cup {k} |-> IF x = k THEN e ELSE m[x]]
MapDelete(m, ks) == [x \in (DOMAIN m) \ ks |-> m[x]]
EmptyMap == [x \in {} |-> Null]

\* age > entry.ttl
Expired(e, t) == (t - e.timestamp) > e.ttl

\* CacheService.get: what it returns, and the map it leaves
CacheGetResult(m, k, t) ==
    IF k \notin DOMAIN m THEN Null
    ELSE IF Expired(m[k], t) THEN Null
    ELSE Some(m[k].data)
CacheGetMap(m, k, t) ==
    IF k \in DOMAIN m /\ Expired(m[k], t) THEN MapDelete(m, {k}) ELSE m

\* cleanup with "age >= entry.ttl" in place of "age > entry.ttl"
CleanupKeys_AtTtl(m, t) == { k \in DOMAIN m : (t - m[k].timestamp) >= m[k].ttl }

\* CacheService.cleanup: the keys it deletes
CleanupKeys(m, t) == { k \in DOMAIN m : Expired(m[k], t) }

\* CacheService.invalidatePattern: the keys it deletes
PatternKeys(m, p) == { k \in DOMAIN m : Includes(k, p) }

\* the latest call: what it returned, whether it threw to its caller (error)
\* and whether a command sent to the durable store threw inside it (failed)
RetNone == [op |-> "none", key |-> <<>>, val |-> Null, count |-> 0,
            error |-> FALSE, failed |-> FALSE]
Ret(op, k, val, count) == [op |-> op, key |-> k, val |-> val, count |-> count,
                           error |-> FALSE, failed |-> FALSE]

CacheService_set(k, v, ttl) ==
    /\ cache' = MapSet(cache, k, NewEntry(v, ttl, now))
    /\ lastSet' = MapSet(lastSet, k, [data |-> v, at |-> now, ttl |-> ttl])
    /\ ret' = Ret("set", k, Null, 0)
    /\ UNCHANGED <<now, redisVars, execVars>>

CacheService_get(k) ==
    /\ cache' = CacheGetMap(cache, k, now)
    /\ ret' = Ret("get", k, CacheGetResult(cache, k, now), 0)
    /\ UNCHANGED <<now, lastSet, redisVars, execVars>>

CacheService_delete(k) ==
    /\ cache' = MapDelete(cache, {k})
    /\ lastSet' = MapDelete(lastSet, {k})
    /\ ret' = Ret("delete", k, Null, 0)
    /\ UNCHANGED <<now, redisVars, execVars>>

CacheService_cleanup ==
    /\ cache' = MapDelete(cache, CleanupKeys(cache, now))
    /\ ret' = Ret("cleanup", <<>>, Null, 0)
    /\ UNCHANGED <<now, lastSet, redisVars, execVars>>

CacheService_invalidatePattern(p) ==
    /\ cache' = MapDelete(cache, PatternKeys(cache, p))
    /\ lastSet' = MapDelete(lastSet, { k \in DOMAIN lastSet : Includes(k, p) })
    /\ ret' = Ret("invalidatePattern", p, Null, Cardinality(PatternKeys(cache, p)))
    /\ UNCHANGED <<now, redisVars, execVars>>

\* time passes: by a millisecond, or by the default ttl; a call's result is
\* observed at the time of the call, so the passing of time forgets it.
\* The instants visited are those at most MaxSkew ms after 0 and after defaultTTL.
TickSteps == { 1, defaultTTL }
Horizon == defaultTTL + MaxSkew
Tick(d) ==
    /\ now + d <= Horizon
    /\ (now + d) % defaultTTL <= MaxSkew
    /\ now' = now + d
    /\ ret' = RetNone
    /\ UNCHANGED <<cache, lastSet, redisVars, execVars>>

InitCommon ==
    /\ now = 0
    /\ cache = EmptyMap
    /\ lastSet = EmptyMap
    /\ ret = RetNone
    /\ memoryCache = EmptyMap
    /\ redis = EmptyMap
    /\ useRedis = FALSE
    /\ cachedToken = 0
    /\ nextToken = 1
    /\ calls = 0

InitCache == InitCommon /\ proc = <<>>

NextCache ==
    \/ \E k \in Keys, v \in Values, ttl \in TtlArgs : CacheService_set(k, v, ttl)
    \/ \E k \in Keys : CacheService_get(k)
    \/ \E k \in Keys : CacheService_delete(k)
    \/ CacheService_cleanup
    \/ \E p \in Patterns : CacheService_invalidatePattern(p)
    \/ \E d \in TickSteps : Tick(d)

SpecCache == InitCache /\ [][NextCache]_vars

----------------------------------------------------------------------------
(* RedisCacheService (durable-backed).  Each call is taken as one step: the   *)
(* caller awaits it.  A Redis command either answers or throws (ok = FALSE). *)

\* JSON.stringify(entry) / JSON.parse(cached)
JsonStringify(e) == [json |-> <<e.data, e.timestamp, e.ttl>>]
JsonParse(j) == [data |-> j.json[1], timestamp |-> j.json[2], ttl |-> j.json[3]]

\* Math.floor((ttl || this.defaultTTL) / 1000)
TtlSeconds(ttl) == TtlOrDefault(ttl) \div 1000

\* SETEX answers an error for an expire time that is not positive
SetExAccepts(seconds) == seconds > 0

\* Redis glob-style matching, as KEYS does it: * any run, ? any one character
RECURSIVE GlobMatch(_, _)
GlobMatch(pat, s) ==
    IF pat = <<>> THEN s = <<>>
    ELSE IF Head(pat) = "*"
         THEN GlobMatch(Tail(pat), s) \/ (s # <<>> /\ GlobMatch(pat, Tail(s)))
    ELSE IF s = <<>> THEN FALSE
    ELSE IF Head(pat) = "?" THEN GlobMatch(Tail(pat), Tail(s))
    ELSE Head(pat) = Head(s) /\ GlobMatch(Tail(pat), Tail(s))

\* redisClient.keys(`*${pattern}*`)
RedisKeys(r, p) == { k \in DOMAIN r : GlobMatch(<<"*">> \o p \o <<"*">>, k) }

\* the server drops a key once its expire time is reached
RedisPurge(r, t) == MapDelete(r, { k \in DOMAIN r : r[k].expireAt <= t })

RedisCacheService_initializeRedis(ok) ==
    /\ ~useRedis
    /\ useRedis' = ok
    /\ ret' = Ret("initializeRedis", <<>>, Null, 0)
    /\ UNCHANGED <<now, cache, lastSet, memoryCache, redis, execVars>>

\* a call that ended normally after a durable-store command threw inside it
Caught(r, threw) == [r EXCEPT !.failed = threw]

\* set, lines 40-62: SETEX, and the memory map when it throws or Redis is off
RedisSet(k, v, ttl, ok) ==
    LET entry == NewEntry(v, ttl, now)
        stored == ok /\ SetExAccepts(TtlSeconds(ttl))
    IN
    /\ IF useRedis /\ stored
       THEN /\ redis' = MapSet(redis, k, [value |-> JsonStringify(entry),
                                          expireAt |-> now + TtlSeconds(ttl) * 1000])
            /\ UNCHANGED memoryCache
       ELSE /\ memoryCache' = MapSet(memoryCache, k, entry)
            /\ UNCHANGED redis
    /\ ret' = Caught(Ret("set", k, Null, 0), useRedis /\ ~stored)

RedisCacheService_set(k, v, ttl, ok) ==
    /\ RedisSet(k, v, ttl, ok)
    /\ UNCHANGED <<now, cache, lastSet, useRedis, execVars>>

\* get: the Redis branch answers when GET succeeds and, for an expired entry,
\* DEL succeeds too; any throw falls through to the memory branch
\* get without the catch of lines 80-83: a throw of GET or DEL reaches the caller
RedisGet_NoCatch(k, okGet, okDel) ==
    LET hit == k \in DOMAIN redis
        entry == JsonParse(redis[k].value)
        old == hit /\ Expired(entry, now)
        viaRedis == useRedis /\ okGet /\ (old => okDel)
    IN
    IF viaRedis
    THEN /\ redis' = IF old THEN MapDelete(redis, {k}) ELSE redis
         /\ ret' = Ret("get", k, IF hit /\ ~old THEN Some(entry.data) ELSE Null, 0)
         /\ UNCHANGED memoryCache
    ELSE IF useRedis
    THEN /\ ret' = [Ret("get", k, Null, 0) EXCEPT !.error = TRUE, !.failed = TRUE]
         /\ UNCHANGED <<memoryCache, redis>>
    ELSE /\ memoryCache' = CacheGetMap(memoryCache, k, now)
         /\ ret' = Ret("get", k, CacheGetResult(memoryCache, k, now), 0)
         /\ UNCHANGED redis

\* get, lines 64-99: the Redis branch, and the memory map when Redis is off or
\* a command throws
RedisGet(k, okGet, okDel) ==
    LET hit == k \in DOMAIN redis
        entry == JsonParse(redis[k].value)
        old == hit /\ Expired(entry, now)
        viaRedis == useRedis /\ okGet /\ (old => okDel)
    IN
    /\ IF viaRedis
       THEN /\ redis' = IF old THEN MapDelete(redis, {k}) ELSE redis
            /\ ret' = Ret("get", k, IF hit /\ ~old THEN Some(entry.data) ELSE Null, 0)
            /\ UNCHANGED memoryCache
       ELSE /\ memoryCache' = CacheGetMap(memoryCache, k, now)
            /\ ret' = Caught(Ret("get", k, CacheGetResult(memoryCache, k, now), 0), useRedis)
            /\ UNCHANGED redis

RedisCacheService_get(k, okGet, okDel) ==
    /\ RedisGet(k, okGet, okDel)
    /\ UNCHANGED <<now, cache, lastSet, useRedis, execVars>>

\* delete, lines 106-115: DEL (a throw is swallowed), then the memory map
RedisDelete(k, ok) ==
    /\ redis' = IF useRedis /\ ok THEN MapDelete(redis, {k}) ELSE redis
    /\ memoryCache' = MapDelete(memoryCache, {k})
    /\ ret' = Caught(Ret("delete", k, Null, 0), useRedis /\ ~ok)

RedisCacheService_delete(k, ok) ==
    /\ RedisDelete(k, ok)
    /\ UNCHANGED <<now, cache, lastSet, useRedis, execVars>>

RedisCacheService_cleanup ==
    /\ memoryCache' = MapDelete(memoryCache, CleanupKeys(memoryCache, now))
    /\ ret' = Ret("cleanup", <<>>, Null, 0)
    /\ UNCHANGED <<now, cache, lastSet, redis, useRedis, execVars>>

\* invalidatePattern: KEYS then DEL on Redis (a throw of either is swallowed),
\* then the memory map; count adds both
RedisInvalidatePattern(p, okKeys, okDel) ==
    LET keys == RedisKeys(redis, p)
        done == useRedis /\ okKeys /\ okDel
        threw == useRedis /\ (~okKeys \/ (keys # {} /\ ~okDel))
        n1 == IF done THEN Cardinality(keys) ELSE 0
        n2 == Cardinality(PatternKeys(memoryCache, p))
    IN
    /\ redis' = IF done THEN MapDelete(redis, keys) ELSE redis
    /\ memoryCache' = MapDelete(memoryCache, PatternKeys(memoryCache, p))
    /\ ret' = Caught(Ret("invalidatePattern", p, Null, n1 + n2), threw)

RedisCacheService_invalidatePattern(p, okKeys, okDel) ==
    /\ RedisInvalidatePattern(p, okKeys, okDel)
    /\ UNCHANGED <<now, cache, lastSet, useRedis, execVars>>

RedisTick(d) ==
    /\ now + d <= Horizon
    /\ (now + d) % defaultTTL <= MaxSkew
    /\ now' = now + d
    /\ redis' = RedisPurge(redis, now + d)
    /\ ret' = RetNone

TickRedis(d) ==
    /\ RedisTick(d)
    /\ UNCHANGED <<cache, lastSet, memoryCache, useRedis, execVars>>

InitRedis == InitCommon /\ proc = <<>>

NextRedis ==
    \/ \E ok \in BOOLEAN : RedisCacheService_initializeRedis(ok)
    \/ \E k \in Keys, v \in Values, ttl \in TtlArgs, ok \in BOOLEAN :
           RedisCacheService_set(k, v, ttl, ok)
    \/ \E k \in Keys, okGet \in BOOLEAN, okDel \in BOOLEAN :
           RedisCacheService_get(k, okGet, okDel)
    \/ \E k \in Keys, ok \in BOOLEAN : RedisCacheService_delete(k, ok)
    \/ RedisCacheService_cleanup
    \/ \E p \in Patterns, okKeys \in BOOLEAN, okDel \in BOOLEAN :
           RedisCacheService_invalidatePattern(p, okKeys, okDel)
    \/ \E d \in TickSteps : TickRedis(d)

SpecRedis == InitRedis /\ [][NextRedis]_vars

----------------------------------------------------------------------------
(* The two implementations behind the one interface {get, set, delete,      *)
(* invalidatePattern}: the same calls are made on the in-process cache       *)
(* (cache) and on the durable-backed one (memoryCache, redis).  ret is the   *)
(* result of the durable-backed call.                                        *)

SwapKeys == { <<"a", "b">> }

Swap_set(k, v, ttl, ok) ==
    /\ RedisSet(k, v, ttl, ok)
    /\ cache' = MapSet(cache, k, NewEntry(v, ttl, now))
    /\ UNCHANGED <<now, lastSet, useRedis, execVars>>

Swap_get(k, okGet, okDel) ==
    /\ RedisGet(k, okGet, okDel)
    /\ cache' = CacheGetMap(cache, k, now)
    /\ UNCHANGED <<now, lastSet, useRedis, execVars>>

Swap_delete(k, ok) ==
    /\ RedisDelete(k, ok)
    /\ cache' = MapDelete(cache, {k})
    /\ UNCHANGED <<now, lastSet, useRedis, execVars>>

Swap_invalidatePattern(p, okKeys, okDel) ==
    /\ RedisInvalidatePattern(p, okKeys, okDel)
    /\ cache' = MapDelete(cache, PatternKeys(cache, p))
    /\ UNCHANGED <<now, lastSet, useRedis, execVars>>

Swap_tick(d) ==
    /\ RedisTick(d)
    /\ UNCHANGED <<cache, lastSet, memoryCache, useRedis, execVars>>

InitSwap == InitCommon /\ proc = <<>>

\* a command is sent to Redis only when useRedis is set: its outcome matters then
NextSwap ==
    \/ \E ok \in BOOLEAN : RedisCacheService_initializeRedis(ok)
    \/ \E k \in SwapKeys, v \in Values, ttl \in TtlArgs, ok \in BOOLEAN :
           (useRedis \/ ok) /\ Swap_set(k, v, ttl, ok)
    \/ \E k \in SwapKeys, okGet \in BOOLEAN, okDel \in BOOLEAN :
           (useRedis \/ (okGet /\ okDel)) /\ Swap_get(k, okGet, okDel)
    \/ \E k \in SwapKeys, ok \in BOOLEAN :
           (useRedis \/ ok) /\ Swap_delete(k, ok)
    \/ \E p \in Patterns, okKeys \in BOOLEAN, okDel \in BOOLEAN :
           (useRedis \/ (okKeys /\ okDel)) /\ Swap_invalidatePattern(p, okKeys, okDel)
    \/ \E d \in TickSteps : Swap_tick(d)

SpecSwap == InitSwap /\ [][NextSwap]_vars

----------------------------------------------------------------------------
(* Claims about the caches *)

\* the ttl a set call declares: the one it passes, the default when it passes none
DeclaredTtl(ttl) == IF ttl.given THEN ttl.ms ELSE defaultTTL

\* C1 (as claimed): in-process cache: a get(k) made after set(k, v, ttl), with no
\* later set / delete / invalidatePattern touching k, returns v while the time
\* elapsed since the set is at most ttl, and returns null once ttl has elapsed.
C1_GetReturnsValueUntilTtl ==
    (ret.op = "get" /\ ret.key \in DOMAIN lastSet) =>
        LET s == lastSet[ret.key] IN
        IF now - s.at <= DeclaredTtl(s.ttl)
        THEN ret.val = Some(s.data)
        ELSE ret.val = Null

\* C2 (as claimed): no get returns a value whose age (now minus the time of the
\* set that stored it) exceeds the ttl declared by that set.
C2_NoReadOlderThanDeclaredTtl ==
    (ret.op = "get" /\ ret.val # Null) =>
        /\ ret.key \in DOMAIN lastSet
        /\ now - lastSet[ret.key].at <= DeclaredTtl(lastSet[ret.key].ttl)

\* C10 (as claimed): invalidatePattern(p) removes exactly the entries whose key
\* contains p as a literal substring, leaves every other entry unchanged and
\* returns the number of entries removed, for the durable-backed cache too
\* (a key held both by Redis and by the memory map is one entry).
C10_InvalidatePatternExact ==
    [][ ret'.op = "invalidatePattern" =>
          LET p == ret'.key
              held == DOMAIN redis \cup DOMAIN memoryCache
          IN
          /\ \A k \in held : Includes(k, p) =>
                 k \notin DOMAIN redis' /\ k \notin DOMAIN memoryCache'
          /\ \A k \in held : ~Includes(k, p) =>
                 /\ (k \in DOMAIN redis) =
                        (k \in DOMAIN redis' /\ redis'[k] = redis[k])
                 /\ (k \in DOMAIN memoryCache) =
                        (k \in DOMAIN memoryCache' /\ memoryCache'[k] = memoryCache[k])
          /\ ret'.count = Cardinality({ k \in held : Includes(k, p) })
      ]_vars

\* C27 (as claimed): the ttl an entry expires after is the 5-minute default
\* when set was called without a ttl, and the ttl the caller passed otherwise,
\* whatever its value, very small ones included.
C27_TtlSelection ==
    \A k \in DOMAIN cache :
        k \in DOMAIN lastSet => cache[k].ttl = DeclaredTtl(lastSet[k].ttl)

\* C28 (as claimed): a get(k) that follows delete(k) returns null, for the
\* in-process cache and for the durable-backed one, also when the DEL sent to
\* the durable store failed; delete(k) leaves no entry for k in the in-process
\* cache.
C28_DeleteThenGetAbsent ==
    /\ [](ret.op = "delete" => ret.key \notin DOMAIN cache)
    /\ [][ (ret.op = "delete" /\ ret'.op = "get" /\ ret'.key = ret.key) =>
              (ret'.val = Null /\ CacheGetResult(cache, ret.key, now) = Null) ]_vars

\* what get(k) returns now in a run of the same calls without any sweep: the
\* value of the latest set of k not followed by a delete or invalidation of k,
\* while its age is within the ttl it was stored with
SweepFreeGet(k) ==
    IF k \in DOMAIN lastSet /\ (now - lastSet[k].at) <= TtlOrDefault(lastSet[k].ttl)
    THEN Some(lastSet[k].data)
    ELSE Null

\* C26: the sweep is not needed for correctness.  cleanup removes exactly the
\* entries whose age exceeds their ttl and changes no other entry, and every
\* get, wherever sweeps were made before it, returns what it returns in the
\* run without sweeps.
C26_SweepChangesNoGet ==
    /\ [](ret.op = "get" => ret.val = SweepFreeGet(ret.key))
    /\ [][ (ret'.op = "cleanup" /\ ret' # ret) =>
              /\ DOMAIN cache' = { k \in DOMAIN cache : ~Expired(cache[k], now) }
              /\ \A k \in DOMAIN cache' : cache'[k] = cache[k] ]_vars

\* C26 witness: a get returns a value after a sweep removed another entry;
\* here the state after the sweep, with one entry removed and one kept
C26_Witness ==
    /\ ret.op = "cleanup"
    /\ \E k \in DOMAIN lastSet : k \notin DOMAIN cache
    /\ \E k \in DOMAIN cache : ~Expired(cache[k], now)

\* C11: durable-backed cache: no get, set, delete or invalidatePattern call
\* throws to its caller, whichever Redis commands throw inside it; a call in
\* which a Redis command threw has done its work on the memory map: set stored
\* there the entry the in-process cache stores, get answered from it, delete
\* and invalidatePattern removed their keys from it.
C11_DurableFailuresFallBack ==
    [][ ret'.op \in {"set", "get", "delete", "invalidatePattern"} =>
          /\ ~ret'.error
          /\ ret'.failed =>
                 LET k == ret'.key IN
                 CASE ret'.op = "set" ->
                          /\ k \in DOMAIN memoryCache'
                          /\ memoryCache'[k] = cache'[k]
                          /\ redis' = redis
                   [] ret'.op = "get" ->
                          /\ ret'.val = CacheGetResult(memoryCache, k, now)
                          /\ memoryCache' = CacheGetMap(memoryCache, k, now)
                   [] ret'.op = "delete" ->
                          k \notin DOMAIN memoryCache'
                   [] ret'.op = "invalidatePattern" ->
                          /\ memoryCache' = MapDelete(memoryCache, PatternKeys(memoryCache, k))
                          /\ ret'.count >= Cardinality(PatternKeys(memoryCache, k))
      ]_vars

\* C11 witness: a get in which a Redis command threw returned the value held
\* by the memory map
C11_Witness ==
    /\ useRedis
    /\ ret.op = "get" /\ ret.failed /\ ~ret.error
    /\ ret.val # Null

\* C12 (as claimed): every get on the durable-backed cache returns what the
\* in-process cache returns for the same sequence of set / get / delete calls,
\* whichever Redis commands failed or succeeded before.
C12_SameResultAsInProcess ==
    [][ ret'.op = "get" => ret'.val = CacheGetResult(cache, ret'.key, now) ]_vars

----------------------------------------------------------------------------
(* produtos-service.ts: obterToken, fazerRequisicaoAutenticada and            *)
(* buscarPrecoProduto.  A call runs from one await to the next in one step;  *)
(* the answers of the ERP are chosen freely.                                 *)

\* number of top-level calls a behaviour starts
MaxCalls == 3

\* the callers of Spec: one, so that calls follow one another
Callers == { 1 }

\* let cachedToken: string | null = null  (0 is null; the tokens are 1, 2, ...)
NoToken == 0

\* const MAX_RETRIES of obterToken, fazerRequisicaoAutenticada, buscarPrecoProduto
LOGIN_MAX_RETRIES == 3
EXEC_MAX_RETRIES == 2
PRICE_MAX_RETRIES == 1

\* a thrown Error: the line that throws it and its message (fixed text, then
\* the interpolated or forwarded part)
Error(line, text, detail) == [line |-> line, text |-> text, detail |-> detail]
NoError == Error(0, "", "")

NoResult == [status |-> "none", val |-> 0, err |-> NoError]
Ok(v) == [status |-> "ok", val |-> v, err |-> NoError]
Failed(e) == [status |-> "error", val |-> 0, err |-> e]

\* what the login endpoint answers: a token, a 200 without token, an HTTP
\* error status (with or without data.error), or no answer at all
LoginOutcomes ==
    { [type |-> "token",   status |-> 200, error |-> ""],
      [type |-> "notoken", status |-> 200, error |-> ""],
      [type |-> "http",    status |-> 500, error |-> ""],
      [type |-> "http",    status |-> 503, error |-> ""],
      [type |-> "http",    status |-> 401, error |-> "Credenciais invalidas"],
      [type |-> "network", status |-> 0,   error |-> ""] }
NoLogin == [type |-> "none", status |-> 0, error |-> ""]

\* what the ERP answers to a request: an HTTP status, or an axios error code
Http(status, statusMessage) ==
    [type |-> "http", status |-> status, code |-> "",
     statusMessage |-> statusMessage, text |-> "",
     detail |-> "Request failed with status code"]
Network(code) ==
    [type |-> "network", status |-> 0, code |-> code,
     statusMessage |-> "", text |-> "", detail |-> "network error"]
\* an Error thrown by the code itself and caught by a caller's catch
Thrown(e) ==
    [type |-> "thrown", status |-> 0, code |-> "",
     statusMessage |-> "", text |-> e.text, detail |-> e.detail]
NoOutcome ==
    [type |-> "none", status |-> 0, code |-> "",
     statusMessage |-> "", text |-> "", detail |-> ""]
ReqOutcomes ==
    { Http(200, ""), Http(401, ""), Http(403, ""),
      Http(404, "Registro nao encontrado"), Http(400, ""),
      Http(500, ""), Http(503, ""),
      Network("ECONNABORTED"), Network("ENOTFOUND"), Network("ECONNRESET") }

\* the test for an expired token with every HTTP error status taken for one
IsAuthFailure_AnyHttpError(o) == o.type = "http" /\ o.status >= 400
\* erro.response && (status === 401 || status === 403)
IsAuthFailure(o) == o.type = "http" /\ o.status \in {401, 403}
\* the transient test with "status >= 400" in place of "status >= 500"
IsTransientExec_From400(o) ==
    o.code = "ECONNABORTED" \/ o.code = "ENOTFOUND" \/ (o.type = "http" /\ o.status >= 400)
\* erro.code === 'ECONNABORTED' || erro.code === 'ENOTFOUND' || erro.response?.status >= 500
IsTransientExec(o) ==
    o.code = "ECONNABORTED" \/ o.code = "ENOTFOUND" \/ (o.type = "http" /\ o.status >= 500)
\* erro.code === 'ECONNABORTED' || erro.response?.status >= 500
IsTransientPrice(o) ==
    o.code = "ECONNABORTED" \/ (o.type = "http" /\ o.status >= 500)

\* product codes, and the body of a price answer: resposta.data
Codes == { <<"7">>, <<"8">> }
PrecoKey(codProd) == <<"p", "r", "e", "c", "o", ":">> \o codProd
PRICE_TTL == 10 * 60 * 1000
Item(valor) == [isnull |-> FALSE, valor |-> valor]
NullItem == [isnull |-> TRUE, valor |-> <<>>]
Body(shape, items) == [shape |-> shape, items |-> items]
PriceBodies ==
    { Body("empty", <<>>), Body("notarray", <<>>), Body("array", <<>>),
      Body("array", << Item(<<"1", "2", ".", "5", "0">>) >>),
      Body("array", << Item(<<"a", "b", "c">>) >>),
      Body("array", << NullItem >>),
      Body("array", << Item(<<"7", "x">>), Item(<<"1", "2", ".", "5", "0">>) >>) }
ExecBodies == { Body("responseBody", <<>>) }

\* parseFloat on a string of characters; numbers are kept in hundredths
DigitChars == <<"0", "1", "2", "3", "4", "5", "6", "7", "8", "9">>
IsDigit(c) == \E i \in 1 .. 10 : DigitChars[i] = c
DigitVal(c) == (CHOOSE i \in 1 .. 10 : DigitChars[i] = c) - 1
RECURSIVE LeadingDigits(_)
LeadingDigits(s) ==
    IF s = <<>> \/ ~IsDigit(Head(s)) THEN <<>>
    ELSE <<Head(s)>> \o LeadingDigits(Tail(s))
\* String(n) of a natural number
RECURSIVE NatToString(_)
NatToString(n) ==
    IF n < 10 THEN << DigitChars[n + 1] >>
    ELSE NatToString(n \div 10) \o << DigitChars[(n % 10) + 1] >>

RECURSIVE DigitsValue(_)
DigitsValue(ds) ==
    IF ds = <<>> THEN 0
    ELSE DigitsValue(SubSeq(ds, 1, Len(ds) - 1)) * 10 + DigitVal(ds[Len(ds)])
NaN == [nan |-> TRUE, cents |-> 0]
Num(c) == [nan |-> FALSE, cents |-> c]
ParseFloat(s) ==
    LET ip == LeadingDigits(s)
        rest == SubSeq(s, Len(ip) + 1, Len(s))
        fp == IF rest # <<>> /\ Head(rest) = "." THEN LeadingDigits(Tail(rest)) ELSE <<>>
        d1 == IF Len(fp) >= 1 THEN DigitVal(fp[1]) ELSE 0
        d2 == IF Len(fp) >= 2 THEN DigitVal(fp[2]) ELSE 0
    IN IF ip = <<>> /\ fp = <<>> THEN NaN
       ELSE Num(DigitsValue(ip) * 100 + d1 * 10 + d2)
\* parseFloat(produto.valor) || 0
ParseFloatOrZero(s) == IF ParseFloat(s).nan THEN 0 ELSE ParseFloat(s).cents

\* the extraction with "produto?.valor": a null product is read as no price
PriceThrows_OptionalChaining(body) == FALSE

\* lines 187-192: does the extraction throw (produto is null), and the price
PriceThrows(body) ==
    body.shape = "array" /\ Len(body.items) > 0 /\ body.items[1].isnull
PriceOf(body) ==
    IF body.shape = "array" /\ Len(body.items) > 0
    THEN ParseFloatOrZero(body.items[1].valor)
    ELSE 0

\* a caller: the call it runs (fn), where it waits (pc), its locals, and the
\* history of the running call (from startToken on)
IdleProc ==
    [fn |-> "idle", pc |-> "idle", retryCount |-> 0, loginRetry |-> 0,
     token |-> NoToken, codProd |-> <<>>, searchLocal |-> <<>>,
     page |-> 0, pageSize |-> 0, result |-> NoResult,
     startToken |-> NoToken, logins |-> 0, requests |-> 0,
     n401 |-> 0, nTransient |-> 0, clearedAt |-> 0,
     lastOutcome |-> NoOutcome, lastLogin |-> NoLogin, lastBody |-> Body("none", <<>>),
     startAt |-> 0, prior |-> Null, execErr |-> NoError,
     payload |-> [offsetPage |-> <<>>, limit |-> <<>>]]

\* after "const token = await obterToken()": obterToken's caller goes on
AfterToken(pr, tok) ==
    IF pr.fn = "obterToken"
    THEN [pr EXCEPT !.pc = "done", !.result = Ok(tok)]
    ELSE [pr EXCEPT !.pc = "request", !.token = tok, !.requests = @ + 1,
                    !.lastOutcome = NoOutcome]

\* obterToken without lines 42-44: it logs in whatever is cached
EnterObterToken_IgnoringCache(pr, retry) ==
    [pr EXCEPT !.pc = "login", !.loginRetry = retry, !.logins = @ + 1]

\* obterToken(retryCount), lines 41-53: the cached token, or a login request
EnterObterToken(pr, retry) ==
    IF cachedToken # NoToken
    THEN AfterToken(pr, cachedToken)
    ELSE [pr EXCEPT !.pc = "login", !.loginRetry = retry, !.logins = @ + 1]

\* buscarPrecoProduto with "if (cachedPrice)" in place of
\* "if (cachedPrice !== null)": a cached 0 is taken for a miss
EnterPrice_TruthyHit(pr) ==
    LET hit == CacheGetResult(cache, PrecoKey(pr.codProd), now) IN
    IF hit # Null /\ hit.data # 0
    THEN [pr EXCEPT !.pc = "done", !.result = Ok(hit.data)]
    ELSE EnterObterToken(pr, 0)

\* buscarPrecoProduto, lines 166-176: the cached price, or obterToken
EnterPrice(pr) ==
    LET hit == CacheGetResult(cache, PrecoKey(pr.codProd), now) IN
    IF hit # Null
    THEN [pr EXCEPT !.pc = "done", !.result = Ok(hit.data)]
    ELSE EnterObterToken(pr, 0)

\* obterToken's catch, lines 70-76: the error it throws
LoginErrorDetail(o) ==
    IF o.type = "notoken"
    THEN "Resposta de login do Sankhya nao continha o token esperado."
    ELSE IF o.type = "http" /\ o.error # "" THEN o.error
    ELSE IF o.type = "http" THEN "Request failed with status code"
    ELSE "timeout of 10000ms exceeded"
LoginRetries(o, retry) == o.type = "http" /\ o.status = 500 /\ retry < LOGIN_MAX_RETRIES
LoginError(o) ==
    IF o.type = "http" /\ o.status = 500
    THEN Error(73, "Servico Sankhya temporariamente indisponivel. Tente novamente em instantes.", "")
    ELSE Error(76, "Falha na autenticacao Sankhya: ", LoginErrorDetail(o))

\* a catch that treats the first 401 / 403 as the last: "retryCount < 0"
ExecCatch_NoAuthRetry(pr, erro) ==
    IF IsAuthFailure(erro)
    THEN [pr EXCEPT !.pc = "done",
             !.result = Failed(Error(112, "Sessao expirada. Tente novamente.", ""))]
    ELSE [pr EXCEPT !.pc = "done", !.result = Failed(Error(136, erro.text, erro.detail))]

\* a catch whose retries have no limit: "retryCount < 1" and
\* "retryCount < MAX_RETRIES" left out
ExecCatch_AlwaysRetrying(pr, erro) ==
    IF IsAuthFailure(erro) THEN [pr EXCEPT !.pc = "authDelay"]
    ELSE IF IsTransientExec(erro) THEN [pr EXCEPT !.pc = "retryDelay", !.nTransient = @ + 1]
    ELSE [pr EXCEPT !.pc = "done", !.result = Failed(Error(136, erro.text, erro.detail))]

\* fazerRequisicaoAutenticada's catch, lines 102-137, on the error erro
ExecCatch(pr, erro) ==
    IF IsAuthFailure(erro)
    THEN IF pr.retryCount < 1
         THEN [pr EXCEPT !.pc = "authDelay"]
         ELSE [pr EXCEPT !.pc = "done",
                  !.result = Failed(Error(112, "Sessao expirada. Tente novamente.", ""))]
    ELSE IF IsTransientExec(erro) /\ pr.retryCount < EXEC_MAX_RETRIES
    THEN [pr EXCEPT !.pc = "retryDelay", !.nTransient = @ + 1]
    ELSE IF erro.code = "ECONNABORTED"
    THEN [pr EXCEPT !.pc = "done",
             !.result = Failed(Error(129, "Tempo de resposta excedido. Tente novamente.", ""))]
    ELSE IF erro.type = "http" /\ erro.status >= 500
    THEN [pr EXCEPT !.pc = "done",
             !.result = Failed(Error(133, "Servico temporariamente indisponivel. Tente novamente.", ""))]
    ELSE IF erro.statusMessage # ""
    THEN [pr EXCEPT !.pc = "done", !.result = Failed(Error(136, "", erro.statusMessage))]
    ELSE [pr EXCEPT !.pc = "done", !.result = Failed(Error(136, erro.text, erro.detail))]

\* buscarPrecoProduto's catch with "throw erro" in place of "return 0"
PriceCatch_Rethrowing(pr, erro) ==
    IF IsAuthFailure(erro) /\ pr.retryCount < 1
    THEN [pr EXCEPT !.pc = "authDelay"]
    ELSE IF IsTransientPrice(erro) /\ pr.retryCount < PRICE_MAX_RETRIES
    THEN [pr EXCEPT !.pc = "retryDelay", !.nTransient = @ + 1]
    ELSE [pr EXCEPT !.pc = "done", !.result = Failed(Error(215, erro.text, erro.detail))]

\* buscarPrecoProduto's catch, lines 199-216
PriceCatch(pr, erro) ==
    IF IsAuthFailure(erro) /\ pr.retryCount < 1
    THEN [pr EXCEPT !.pc = "authDelay"]
    ELSE IF IsTransientPrice(erro) /\ pr.retryCount < PRICE_MAX_RETRIES
    THEN [pr EXCEPT !.pc = "retryDelay", !.nTransient = @ + 1]
    ELSE [pr EXCEPT !.pc = "done", !.result = Ok(0)]

\* consultarEstoqueProduto and consultarProdutos call the executor and rethrow
\* what it throws: catch (erro) { throw erro }, lines 325-327 and 411-413
QueryFns == { "consultarEstoqueProduto", "consultarProdutos" }
\* a catch that throws a new Error built from the message of the caught one
QueryCatch_Wrapping(erro) == Error(412, "Erro ao consultar", erro.text)
QueryCatch(erro) == erro

QueryExecCatch(pr, erro) ==
    LET e == ExecCatch(pr, erro) IN
    IF e.pc = "done"
    THEN [e EXCEPT !.execErr = e.result.err, !.result = Failed(QueryCatch(e.result.err))]
    ELSE e

\* an error thrown by obterToken reaches the catch of its caller
LoginFailed(pr, e) ==
    IF pr.fn = "obterToken" THEN [pr EXCEPT !.pc = "done", !.result = Failed(e)]
    ELSE IF pr.fn = "fazerRequisicaoAutenticada" THEN ExecCatch(pr, Thrown(e))
    ELSE IF pr.fn \in QueryFns THEN QueryExecCatch(pr, Thrown(e))
    ELSE PriceCatch(pr, Thrown(e))

CanStart(p) == proc[p].pc \in {"idle", "done"} /\ calls < MaxCalls
Fresh(fn) == [IdleProc EXCEPT !.fn = fn, !.startToken = cachedToken, !.startAt = now]
\* history: what the ERP last served for the request key, when the call starts
Prior(key) == IF key \in DOMAIN lastSet THEN Some(lastSet[key]) ELSE Null
Served(data) == [data |-> data, at |-> now]

StartObterToken(p) ==
    /\ CanStart(p)
    /\ proc' = [proc EXCEPT ![p] = EnterObterToken(Fresh("obterToken"), 0)]
    /\ calls' = calls + 1
    /\ UNCHANGED <<cacheVars, redisVars, cachedToken, nextToken>>

StartExec(p) ==
    /\ CanStart(p)
    /\ proc' = [proc EXCEPT ![p] = EnterObterToken(Fresh("fazerRequisicaoAutenticada"), 0)]
    /\ calls' = calls + 1
    /\ UNCHANGED <<cacheVars, redisVars, cachedToken, nextToken>>

StartPrice(p, codProd) ==
    /\ CanStart(p)
    /\ proc' = [proc EXCEPT ![p] =
                    EnterPrice([Fresh("buscarPrecoProduto") EXCEPT
                                   !.codProd = codProd, !.prior = Prior(PrecoKey(codProd))])]
    /\ cache' = CacheGetMap(cache, PrecoKey(codProd), now)
    /\ calls' = calls + 1
    /\ UNCHANGED <<now, lastSet, ret, redisVars, cachedToken, nextToken>>

\* the login request is answered
LoginResponse(p, o) ==
    LET pr == [proc[p] EXCEPT !.lastLogin = o] IN
    /\ proc[p].pc = "login"
    /\ IF o.type = "token"
       THEN /\ cachedToken' = nextToken
            /\ nextToken' = nextToken + 1
            /\ proc' = [proc EXCEPT ![p] = AfterToken(pr, nextToken)]
       ELSE IF LoginRetries(o, pr.loginRetry)
       THEN /\ proc' = [proc EXCEPT ![p] = [pr EXCEPT !.pc = "loginDelay"]]
            /\ UNCHANGED <<cachedToken, nextToken>>
       ELSE /\ cachedToken' = NoToken
            /\ proc' = [proc EXCEPT ![p] = LoginFailed(pr, LoginError(o))]
            /\ UNCHANGED nextToken
    /\ UNCHANGED <<cacheVars, redisVars, calls>>

\* the backoff of obterToken is over: obterToken(retryCount + 1)
LoginRetry(p) ==
    /\ proc[p].pc = "loginDelay"
    /\ proc' = [proc EXCEPT ![p] = EnterObterToken(proc[p], proc[p].loginRetry + 1)]
    /\ UNCHANGED <<cacheVars, redisVars, cachedToken, nextToken, calls>>

\* the request of fazerRequisicaoAutenticada is answered
ExecResponse(p, o, body) ==
    LET pr == [proc[p] EXCEPT !.lastOutcome = o,
                              !.n401 = IF IsAuthFailure(o) THEN @ + 1 ELSE @,
                              !.clearedAt = IF IsAuthFailure(o) THEN nextToken ELSE @] IN
    /\ proc[p].pc = "request"
    /\ proc[p].fn = "fazerRequisicaoAutenticada"
    /\ proc' = [proc EXCEPT ![p] =
                    IF o.status = 200
                    THEN [pr EXCEPT !.pc = "done", !.result = Ok(body), !.lastBody = body]
                    ELSE ExecCatch(pr, o)]
    /\ cachedToken' = IF IsAuthFailure(o) THEN NoToken ELSE cachedToken
    /\ UNCHANGED <<cacheVars, redisVars, nextToken, calls>>

\* the request of buscarPrecoProduto is answered
PriceResponse(p, o, body) ==
    LET pr == [proc[p] EXCEPT !.lastOutcome = o,
                              !.n401 = IF IsAuthFailure(o) THEN @ + 1 ELSE @,
                              !.clearedAt = IF IsAuthFailure(o) THEN nextToken ELSE @]
        key == PrecoKey(pr.codProd)
        good == o.status = 200 /\ ~PriceThrows(body)
    IN
    /\ proc[p].pc = "request"
    /\ proc[p].fn = "buscarPrecoProduto"
    /\ proc' = [proc EXCEPT ![p] =
                    IF good
                    THEN [pr EXCEPT !.pc = "done", !.result = Ok(PriceOf(body)),
                                    !.lastBody = body]
                    ELSE IF o.status = 200
                    THEN PriceCatch([pr EXCEPT !.lastBody = body],
                                    Thrown(Error(190, "TypeError", "")))
                    ELSE PriceCatch(pr, o)]
    /\ cache' = IF good
                THEN MapSet(cache, key, NewEntry(PriceOf(body), GivenTTL(PRICE_TTL), now))
                ELSE cache
    /\ lastSet' = IF good THEN MapSet(lastSet, key, Served(PriceOf(body))) ELSE lastSet
    /\ cachedToken' = IF IsAuthFailure(o) THEN NoToken ELSE cachedToken
    /\ UNCHANGED <<now, ret, redisVars, nextToken, calls>>

\* the wait is over: the function calls itself with retryCount + 1
Reenter(p) ==
    LET pr == [proc[p] EXCEPT !.retryCount = @ + 1] IN
    /\ proc' = [proc EXCEPT ![p] =
                    IF pr.fn = "buscarPrecoProduto" THEN EnterPrice(pr)
                    ELSE EnterObterToken(pr, 0)]
    /\ cache' = IF pr.fn = "buscarPrecoProduto"
                THEN CacheGetMap(cache, PrecoKey(pr.codProd), now)
                ELSE cache
    /\ UNCHANGED <<now, lastSet, ret, redisVars, cachedToken, nextToken, calls>>

\* after the 500 ms wait that follows a 401 / 403
AuthRetry(p) ==
    /\ proc[p].pc = "authDelay"
    /\ Reenter(p)

\* after the backoff that follows a timeout, a DNS failure or a 5xx
TransientRetry(p) ==
    /\ proc[p].pc = "retryDelay"
    /\ Reenter(p)

\* consultarEstoqueProduto: cacheKey = `estoque:${codProd}:${searchLocal}`
Locals == { <<>>, <<"1">> }
StockKey(codProd, searchLocal) ==
    <<"e", "s", "t", "o", "q", "u", "e", ":">> \o codProd \o <<":">> \o searchLocal
STOCK_TTL == 5 * 60 * 1000

\* respostaCompleta of a loadRecords query: without responseBody.entities,
\* with entities but no entity (no rows), with rows (the ESTOQUE / VLRCOMERC
\* slot of each), or rows without entities.metadata (mapearEntidades throws)
QueryBodies ==
    { Body("noEntities", <<>>), Body("noEntity", <<>>),
      Body("entities", << Item(<<"5">>) >>),
      Body("entities", << Item(<<"5">>), Item(<<"3">>) >>),
      Body("noMetadata", << Item(<<"5">>) >>) }
MapearThrows(body) == body.shape = "noMetadata"
HasRows(body) == body.shape = "entities"

\* lines 395-398: acc + parseFloat(estoque.ESTOQUE || '0')
\* a missing ESTOQUE and an empty one are falsy and read as '0'
Quantidade(item) ==
    IF item.isnull \/ item.valor = <<>> THEN Num(0) ELSE ParseFloat(item.valor)
Plus(a, b) == IF a.nan \/ b.nan THEN NaN ELSE Num(a.cents + b.cents)
RECURSIVE EstoqueTotal(_)
EstoqueTotal(items) ==
    IF items = <<>> THEN Num(0)
    ELSE Plus(EstoqueTotal(SubSeq(items, 1, Len(items) - 1)), Quantidade(items[Len(items)]))

\* the result of consultarEstoqueProduto, lines 374-404
StockResult(body) ==
    IF HasRows(body)
    THEN [estoques |-> body.items, total |-> Len(body.items),
          estoqueTotal |-> EstoqueTotal(body.items)]
    ELSE [estoques |-> <<>>, total |-> 0, estoqueTotal |-> Num(0)]

\* consultarProdutos(page, pageSize): the request it stands for, and its result,
\* lines 274-323 (without entities.total)
ListingPages == { 1, 2 }
ListingPageSizes == { 1 }
ListingKey(page, pageSize) ==
    <<"p", "r", "o", "d", "u", "t", "o", "s", ":", DigitChars[page + 1], ":",
      DigitChars[pageSize + 1]>>
\* lines 221 and 240-250: the offset, and offsetPage / limit of the dataSet
ListingOffset_FromPage(page, pageSize) == page * pageSize
ListingOffset(page, pageSize) == (page - 1) * pageSize

ListingPayload(page, pageSize) ==
    [offsetPage |-> NatToString(ListingOffset(page, pageSize)),
     limit |-> NatToString(pageSize)]
ListingResult(body, page, pageSize) ==
    IF HasRows(body)
    THEN LET lista == SubSeq(body.items, 1, Min(Len(body.items), pageSize)) IN
         [produtos |-> lista, total |-> Len(lista), page |-> page,
          pageSize |-> pageSize, totalPages |-> 1]
    ELSE [produtos |-> <<>>, total |-> 0, page |-> page,
          pageSize |-> pageSize, totalPages |-> 0]

\* consultarEstoqueProduto, lines 331-337: the cached result, or the executor
EnterStock(pr) ==
    LET hit == CacheGetResult(cache, StockKey(pr.codProd, pr.searchLocal), now) IN
    IF hit # Null
    THEN [pr EXCEPT !.pc = "done", !.result = Ok(hit.data)]
    ELSE EnterObterToken(pr, 0)

StartStock(p, codProd, searchLocal) ==
    LET key == StockKey(codProd, searchLocal) IN
    /\ CanStart(p)
    /\ proc' = [proc EXCEPT ![p] =
                    EnterStock([Fresh("consultarEstoqueProduto") EXCEPT
                                   !.codProd = codProd, !.searchLocal = searchLocal,
                                   !.prior = Prior(key)])]
    /\ cache' = CacheGetMap(cache, key, now)
    /\ calls' = calls + 1
    /\ UNCHANGED <<now, lastSet, ret, redisVars, cachedToken, nextToken>>

\* consultarProdutos, lines 220-271: straight to the executor
StartListing(p, page, pageSize) ==
    /\ CanStart(p)
    /\ proc' = [proc EXCEPT ![p] =
                    EnterObterToken([Fresh("consultarProdutos") EXCEPT
                                        !.page = page, !.pageSize = pageSize,
                                        !.payload = ListingPayload(page, pageSize),
                                        !.prior = Prior(ListingKey(page, pageSize))], 0)]
    /\ calls' = calls + 1
    /\ UNCHANGED <<cacheVars, redisVars, cachedToken, nextToken>>

\* the executor's request, made for a query function, is answered
QueryAnswered(pr, o) ==
    [pr EXCEPT !.lastOutcome = o,
               !.n401 = IF IsAuthFailure(o) THEN @ + 1 ELSE @,
               !.clearedAt = IF IsAuthFailure(o) THEN nextToken ELSE @]
TypeError == Error(142, "TypeError", "")

\* consultarEstoqueProduto, lines 366-413
StockResponse(p, o, body) ==
    LET pr == QueryAnswered(proc[p], o)
        key == StockKey(pr.codProd, pr.searchLocal)
        good == o.status = 200 /\ ~MapearThrows(body)
    IN
    /\ proc[p].pc = "request"
    /\ proc[p].fn = "consultarEstoqueProduto"
    /\ proc' = [proc EXCEPT ![p] =
                    IF good
                    THEN [pr EXCEPT !.pc = "done", !.result = Ok(StockResult(body)),
                                    !.lastBody = body]
                    ELSE IF o.status = 200
                    THEN [pr EXCEPT !.pc = "done", !.lastBody = body,
                                    !.result = Failed(QueryCatch(TypeError))]
                    ELSE QueryExecCatch(pr, o)]
    /\ cache' = IF good /\ HasRows(body)
                THEN MapSet(cache, key, NewEntry(StockResult(body), GivenTTL(STOCK_TTL), now))
                ELSE cache
    /\ lastSet' = IF good THEN MapSet(lastSet, key, Served(StockResult(body))) ELSE lastSet
    /\ cachedToken' = IF IsAuthFailure(o) THEN NoToken ELSE cachedToken
    /\ UNCHANGED <<now, ret, redisVars, nextToken, calls>>

\* consultarProdutos, lines 266-327
ListingResponse(p, o, body) ==
    LET pr == QueryAnswered(proc[p], o)
        key == ListingKey(pr.page, pr.pageSize)
        good == o.status = 200 /\ ~MapearThrows(body)
    IN
    /\ proc[p].pc = "request"
    /\ proc[p].fn = "consultarProdutos"
    /\ proc' = [proc EXCEPT ![p] =
                    IF good
                    THEN [pr EXCEPT !.pc = "done", !.lastBody = body,
                                    !.result = Ok(ListingResult(body, pr.page, pr.pageSize))]
                    ELSE IF o.status = 200
                    THEN [pr EXCEPT !.pc = "done", !.lastBody = body,
                                    !.result = Failed(QueryCatch(TypeError))]
                    ELSE QueryExecCatch(pr, o)]
    /\ lastSet' = IF good
                  THEN MapSet(lastSet, key, Served(ListingResult(body, pr.page, pr.pageSize)))
                  ELSE lastSet
    /\ cachedToken' = IF IsAuthFailure(o) THEN NoToken ELSE cachedToken
    /\ UNCHANGED <<now, cache, ret, redisVars, nextToken, calls>>

Init == InitCommon /\ proc = [p \in Callers |-> IdleProc]

Next ==
    \E p \in Callers :
        \/ StartObterToken(p)
        \/ StartExec(p)
        \/ \E c \in Codes : StartPrice(p, c)
        \/ \E o \in LoginOutcomes : LoginResponse(p, o)
        \/ LoginRetry(p)
        \/ \E o \in ReqOutcomes, b \in ExecBodies : ExecResponse(p, o, b)
        \/ \E o \in ReqOutcomes, b \in PriceBodies :
               (o.status = 200 \/ b = Body("empty", <<>>)) /\ PriceResponse(p, o, b)
        \/ AuthRetry(p)
        \/ TransientRetry(p)

Spec == Init /\ [][Next]_vars

\* the query functions that go through the executor: stock lookup and product
\* listing.  The login answers with a token or not at all; the ERP answers a
\* request with 200, 401, 404 with a message, 500, or a DNS failure.
QueryLogins ==
    { [type |-> "token",   status |-> 200, error |-> ""],
      [type |-> "network", status |-> 0,   error |-> ""] }
QueryOutcomes ==
    { Http(200, ""), Http(401, ""), Http(404, "Registro nao encontrado"),
      Http(500, ""), Network("ENOTFOUND") }

NextQuery ==
    \E p \in Callers :
        \/ \E c \in Codes, l \in Locals : StartStock(p, c, l)
        \/ \E page \in ListingPages, size \in ListingPageSizes : StartListing(p, page, size)
        \/ \E o \in QueryLogins : LoginResponse(p, o)
        \/ \E o \in QueryOutcomes, b \in QueryBodies :
               (o.status = 200 \/ b = Body("noEntities", <<>>)) /\ StockResponse(p, o, b)
        \/ \E o \in QueryOutcomes, b \in QueryBodies :
               (o.status = 200 \/ b = Body("noEntities", <<>>)) /\ ListingResponse(p, o, b)
        \/ AuthRetry(p)
        \/ TransientRetry(p)

SpecQuery == Init /\ [][NextQuery]_vars

\* the price lookup over time: the clock advances by a millisecond or by the
\* 10 minutes of the price ttl, between calls and while a call waits.  The
\* instants visited are those at most MaxSkew ms after 0 and after PRICE_TTL.
PriceTickSteps == { 1, PRICE_TTL }
PriceTick(d) ==
    /\ now + d <= PRICE_TTL + MaxSkew
    /\ (now + d) % PRICE_TTL <= MaxSkew
    /\ now' = now + d
    /\ UNCHANGED <<cache, lastSet, ret, redisVars, execVars>>

PriceOutcomes ==
    { Http(200, ""), Http(401, ""), Http(404, "Registro nao encontrado"), Http(500, "") }
PriceAnswers ==
    { Body("empty", <<>>),
      Body("array", << Item(<<"1", "2", ".", "5", "0">>) >>),
      Body("array", << Item(<<"7", "x">>), Item(<<"1", "2", ".", "5", "0">>) >>),
      Body("array", << NullItem >>) }

NextPrice ==
    \/ \E d \in PriceTickSteps : PriceTick(d)
    \/ \E p \in Callers :
        \/ \E c \in Codes : StartPrice(p, c)
        \/ \E o \in QueryLogins : LoginResponse(p, o)
        \/ \E o \in PriceOutcomes, b \in PriceAnswers :
               (o.status = 200 \/ b = Body("empty", <<>>)) /\ PriceResponse(p, o, b)
        \/ AuthRetry(p)
        \/ TransientRetry(p)

SpecPrice == Init /\ [][NextPrice]_vars

\* two callers at once: price and stock lookups of one product code run
\* interleaved at their awaits (login, request, backoff); the login is
\* answered with a token and a request with 200 or 500
RaceCallers == { 1, 2 }
RaceCodes == { <<"7">> }
RaceOutcomes == { Http(200, ""), Http(500, "") }
RacePrices == { Body("empty", <<>>), Body("array", << Item(<<"1", "2", ".", "5", "0">>) >>) }
RaceStocks == { Body("noEntity", <<>>), Body("entities", << Item(<<"5">>) >>),
                Body("entities", << Item(<<"5">>), Item(<<"3">>) >>) }

\* the steps a running call of p takes
RaceStep(p) ==
    \/ LoginResponse(p, [type |-> "token", status |-> 200, error |-> ""])
    \/ \E o \in RaceOutcomes, b \in RacePrices :
           (o.status = 200 \/ b = Body("empty", <<>>)) /\ PriceResponse(p, o, b)
    \/ \E o \in RaceOutcomes, b \in RaceStocks :
           (o.status = 200 \/ b = Body("noEntity", <<>>)) /\ StockResponse(p, o, b)
    \/ TransientRetry(p)

InitRace == InitCommon /\ proc = [p \in RaceCallers |-> IdleProc]

NextRace ==
    \E p \in RaceCallers :
        \/ \E c \in RaceCodes : StartPrice(p, c)
        \/ \E c \in RaceCodes : StartStock(p, c, <<>>)
        \/ RaceStep(p)

SpecRace == InitRace /\ [][NextRace]_vars

\* where each call is: every step of a running call changes it
Position == [p \in DOMAIN proc |-> <<proc[p].pc, proc[p].retryCount, proc[p].logins>>]

\* calls of fazerRequisicaoAutenticada, one after the other, against an ERP
\* that answers the logins and the requests in every way
ExecStep(p) ==
    \/ \E o \in LoginOutcomes : LoginResponse(p, o)
    \/ LoginRetry(p)
    \/ \E o \in ReqOutcomes, b \in ExecBodies : ExecResponse(p, o, b)
    \/ AuthRetry(p)
    \/ TransientRetry(p)

NextExec == \E p \in Callers : StartExec(p) \/ ExecStep(p)

SpecExec == Init /\ [][NextExec]_vars

\* two callers at once, each calling obterToken, fazerRequisicaoAutenticada or
\* buscarPrecoProduto; a login is answered with a token or without one, a
\* request with 200, 401 or 404
CredCallers == { 1, 2 }
CredCodes == { <<"7">> }
CredLogins == { o \in LoginOutcomes : o.type \in {"token", "notoken"} }
CredOutcomes == { Http(200, ""), Http(401, ""), Http(404, "Registro nao encontrado") }
CredPrices == { Body("empty", <<>>) }

NextCred ==
    \E p \in CredCallers :
        \/ StartObterToken(p)
        \/ StartExec(p)
        \/ \E c \in CredCodes : StartPrice(p, c)
        \/ \E o \in CredLogins : LoginResponse(p, o)
        \/ \E o \in CredOutcomes, b \in ExecBodies : ExecResponse(p, o, b)
        \/ \E o \in CredOutcomes, b \in CredPrices : PriceResponse(p, o, b)
        \/ AuthRetry(p)

SpecCred == InitRace /\ [][NextCred]_vars

\* several calls of fazerRequisicaoAutenticada at once, all started while the
\* first token is cached; the ERP has expired that token: it answers 401 to a
\* request that carries it and 200 to a request that carries a later one; the
\* login endpoint answers with a token
RefreshCallers == 1 .. MaxCalls
ExpiredToken == 1
ErpAnswer(tok) == IF tok = ExpiredToken THEN Http(401, "") ELSE Http(200, "")

\* the steps a running call of p takes
RefreshStep(p) ==
    \/ LoginResponse(p, [type |-> "token", status |-> 200, error |-> ""])
    \/ \E b \in ExecBodies : ExecResponse(p, ErpAnswer(proc[p].token), b)
    \/ AuthRetry(p)

\* the state after a login that was answered with the first token
InitRefresh ==
    /\ now = 0
    /\ cache = EmptyMap
    /\ lastSet = EmptyMap
    /\ ret = RetNone
    /\ memoryCache = EmptyMap
    /\ redis = EmptyMap
    /\ useRedis = FALSE
    /\ cachedToken = ExpiredToken
    /\ nextToken = ExpiredToken + 1
    /\ calls = 0
    /\ proc = [p \in RefreshCallers |-> IdleProc]

NextRefresh ==
    \E p \in RefreshCallers :
        \/ cachedToken = ExpiredToken /\ StartExec(p)
        \/ RefreshStep(p)

\* every request and every login is answered (axios has a timeout) and every
\* wait ends
SpecRefresh ==
    InitRefresh /\ [][NextRefresh]_vars /\ \A p \in RefreshCallers : WF_Position(RefreshStep(p))

\* the stock total of an answer of 1 .. MaxStockRows rows whose ESTOQUE is
\* "3", "2.5", not a number, empty or missing
MaxStockRows == 3
StockItems ==
    { Item(<<"3">>), Item(<<"2", ".", "5">>), Item(<<"a", "b", "c">>), Item(<<>>), NullItem }
StockRowSeqs == UNION { [1 .. m -> StockItems] : m \in 1 .. MaxStockRows }

CallEstoqueTotal ==
    /\ proc.pc = "call"
    /\ proc' = [proc EXCEPT !.pc = "done",
                            !.out = StockResult(Body("entities", proc.rows))]
    /\ UNCHANGED <<cacheVars, redisVars, cachedToken, nextToken, calls>>

InitTotal ==
    /\ InitCommon
    /\ proc \in { [pc |-> "call", rows |-> r, out |-> StockResult(Body("noEntity", <<>>))] :
                     r \in StockRowSeqs }

NextTotal == CallEstoqueTotal

SpecTotal == InitTotal /\ [][NextTotal]_vars

\* the product listing by pages: pages 1 .. MaxPage of 1 .. MaxPageSize
\* products, the login answered with a token and the query with 200 and
\* 0 to 3 rows
MaxPage == 2
MaxPageSize == 2
PagedBodies ==
    { Body("noEntity", <<>>),
      Body("entities", << Item(<<"5">>) >>),
      Body("entities", << Item(<<"5">>), Item(<<"3">>) >>),
      Body("entities", << Item(<<"5">>), Item(<<"3">>), Item(<<"7">>) >>) }

NextListing ==
    \E p \in Callers :
        \/ \E page \in 1 .. MaxPage, size \in 1 .. MaxPageSize : StartListing(p, page, size)
        \/ LoginResponse(p, [type |-> "token", status |-> 200, error |-> ""])
        \/ \E b \in PagedBodies : ListingResponse(p, Http(200, ""), b)

SpecListing == Init /\ [][NextListing]_vars

----------------------------------------------------------------------------
(* Claims about the token manager, the executor and the price lookup *)

IsExec(pr) == pr.fn = "fazerRequisicaoAutenticada"
IsEnsureToken(pr) == pr.fn = "obterToken"
IsPrice(pr) == pr.fn = "buscarPrecoProduto"
Ended(pr) == pr.pc = "done"
Raised(pr) == pr.pc = "done" /\ pr.result.status = "error"
SessionExpired(pr) == Raised(pr) /\ pr.result.err.line = 112

\* C3 (as claimed): the first 401/403 of an execute call clears the credential
\* and is followed by one retry with a credential obtained after the clearing,
\* whatever transient retries came before; only a second 401/403 makes the call
\* fail with "session expired".
C3_FirstAuthFailureRetried ==
    \A p \in DOMAIN proc :
        LET pr == proc[p] IN
        IsExec(pr) =>
            /\ SessionExpired(pr) => pr.n401 >= 2
            /\ (IsAuthFailure(pr.lastOutcome) /\ pr.n401 = 1) =>
                   (cachedToken = NoToken /\ ~SessionExpired(pr))
            /\ (pr.pc = "request" /\ pr.n401 >= 1) => pr.token >= pr.clearedAt

\* C4 (as claimed): an execute call gives up on a timeout, a DNS failure or a
\* 5xx only after it has made 2 transient-failure retries, whether or not a
\* 401/403 retry also happened in the call.
C4_TwoTransientRetries ==
    \A p \in DOMAIN proc :
        LET pr == proc[p] IN
        (IsExec(pr) /\ Raised(pr) /\ IsTransientExec(pr.lastOutcome)) =>
            pr.nTransient = EXEC_MAX_RETRIES

\* the messages of the ServiceUnavailableError kind: lines 129 and 133
ServiceUnavailableLines == {129, 133}

\* C5 (as claimed): an execute call that exhausts its transient-failure retries
\* surfaces the ServiceUnavailableError kind for a timeout, a DNS failure and a
\* 5xx alike, never the generic UpstreamError or the AuthError kind.
C5_ExhaustionIsServiceUnavailable ==
    \A p \in DOMAIN proc :
        LET pr == proc[p] IN
        (IsExec(pr) /\ Raised(pr) /\ IsTransientExec(pr.lastOutcome)
                    /\ pr.nTransient = EXEC_MAX_RETRIES) =>
            pr.result.err.line \in ServiceUnavailableLines

C7_LoginRetriedOnAny5xx ==
    \A p \in DOMAIN proc :
        LET pr == proc[p] IN
        IsEnsureToken(pr) =>
            /\ pr.loginRetry <= LOGIN_MAX_RETRIES
            /\ (Raised(pr) /\ pr.lastLogin.type = "http" /\ pr.lastLogin.status >= 500) =>
                   pr.loginRetry = LOGIN_MAX_RETRIES
            /\ pr.pc = "loginDelay" =>
                   (pr.lastLogin.type = "http" /\ pr.lastLogin.status >= 500)

\* C8 (as claimed): when ensureToken returns a token obtained by login the
\* cached credential is that token; when it fails (non-5xx failure, missing
\* token, retries exhausted) the cached credential is absent and the error is
\* the authentication failure carrying the upstream message.
C8_TokenManagerPostState ==
    \A p \in DOMAIN proc :
        LET pr == proc[p] IN
        (IsEnsureToken(pr) /\ Ended(pr)) =>
            /\ (pr.result.status = "ok" /\ pr.logins > 0) => cachedToken = pr.result.val
            /\ Raised(pr) =>
                   /\ cachedToken = NoToken
                   /\ pr.result.err.text = "Falha na autenticacao Sankhya: "
                   /\ pr.result.err.detail = LoginErrorDetail(pr.lastLogin)

\* the price the claim expects for a first item: 12.5 for "12.50", 7 for "7x",
\* nothing for a missing or unparsable one
ExpectedPrice(body) ==
    IF body.shape # "array" \/ body.items = <<>> THEN 0
    ELSE IF body.items[1] = Item(<<"1", "2", ".", "5", "0">>) THEN 1250
    ELSE IF body.items[1] = Item(<<"7", "x">>) THEN 700
    ELSE 0

\* C9: the price lookup never raises.  It ends after at most 2 requests with a
\* number: the cached price on a cache hit, the parsed first price when the
\* ERP answered 200 with one (12.5 for "12.50"), and 0 in every other case
\* (login failure, 401/403, timeout, 5xx, other error, malformed or empty body).
C9_PriceLookupNeverRaises ==
    \A p \in DOMAIN proc :
        LET pr == proc[p]
            key == PrecoKey(pr.codProd)
        IN
        IsPrice(pr) =>
            /\ pr.requests <= 2
            /\ ~Raised(pr)
            /\ Ended(pr) =>
                   /\ pr.result.status = "ok"
                   /\ pr.result.val \in Nat
                   /\ IF pr.requests = 0 /\ pr.logins = 0
                      THEN key \in DOMAIN cache /\ pr.result.val = cache[key].data
                      ELSE IF pr.lastOutcome.status = 200
                      THEN pr.result.val = ExpectedPrice(pr.lastBody)
                      ELSE pr.result.val = 0

\* C9 witness: a lookup that was retried after a failure and then returned 12.5
C9_Witness ==
    \E p \in DOMAIN proc :
        /\ IsPrice(proc[p]) /\ Ended(proc[p])
        /\ proc[p].retryCount = 1
        /\ proc[p].lastOutcome.status = 200
        /\ proc[p].result = Ok(1250)

\* the result the ERP last served for the key of the call, if the call started
\* at most ttl ms after it was served
IsStock(pr) == pr.fn = "consultarEstoqueProduto"
IsListing(pr) == pr.fn = "consultarProdutos"
ServedWithin(pr, ttl) == pr.prior # Null /\ pr.startAt - pr.prior.data.at <= ttl
FromCache(pr) == Ended(pr) /\ pr.requests = 0 /\ pr.logins = 0

\* C16: price caching.  A price lookup for code c that starts at most 10
\* minutes after a price was obtained from the ERP for c returns that price
\* (0 included) without a login or a request; one that starts more than 10
\* minutes after it, or before any price was obtained for c, contacts the ERP;
\* a lookup answered without contacting the ERP returns the price obtained
\* for its own code.
C16_PriceServedFromCacheTenMinutes ==
    \A p \in DOMAIN proc :
        LET pr == proc[p] IN
        IsPrice(pr) =>
            /\ ServedWithin(pr, PRICE_TTL) =>
                   (FromCache(pr) /\ pr.result = Ok(pr.prior.data.data))
            /\ ~ServedWithin(pr, PRICE_TTL) => ~FromCache(pr)

\* C16 witness: a price of 0 obtained for the code is returned from the cache
\* exactly 10 minutes later
C16_Witness ==
    \E p \in DOMAIN proc :
        /\ IsPrice(proc[p]) /\ FromCache(proc[p])
        /\ proc[p].prior # Null
        /\ proc[p].prior.data.data = 0
        /\ proc[p].startAt - proc[p].prior.data.at = PRICE_TTL
        /\ proc[p].result = Ok(0)

\* C17 (as claimed): a stock lookup that starts within 5 minutes of a
\* successful lookup of the same (code, localFilter), whatever rows the ERP
\* returned then (one, several or none), returns that result without a login
\* or a request.
C17_StockServedFromCacheFiveMinutes ==
    \A p \in DOMAIN proc :
        LET pr == proc[p] IN
        (IsStock(pr) /\ ServedWithin(pr, STOCK_TTL)) =>
            (FromCache(pr) /\ pr.result = Ok(pr.prior.data.data))

\* C18 (as claimed): a product listing call that follows a successful call
\* with the same page and pageSize is answered from the cache: it returns the
\* earlier result and issues no upstream query.
C18_ListingServedFromCache ==
    \A p \in DOMAIN proc :
        LET pr == proc[p] IN
        (IsListing(pr) /\ pr.prior # Null) =>
            (FromCache(pr) /\ pr.result = Ok(pr.prior.data.data))

\* C24: a product listing call for page >= 1 and pageSize >= 1 sends the
\* query with offsetPage = (page - 1) * pageSize and limit = pageSize, and
\* the list it returns has at most pageSize products: the rows of the answer
\* in their order, cut after the first pageSize.
C24_ListingPagination ==
    \A p \in DOMAIN proc :
        LET pr == proc[p] IN
        IsListing(pr) =>
            /\ pr.payload.offsetPage = NatToString((pr.page - 1) * pr.pageSize)
            /\ pr.payload.limit = NatToString(pr.pageSize)
            /\ (Ended(pr) /\ ~Raised(pr)) =>
                   LET rows == pr.lastBody.items
                       lista == pr.result.val.produtos
                   IN
                   /\ Len(lista) <= pr.pageSize
                   /\ Len(lista) = Min(Len(rows), pr.pageSize)
                   /\ \A j \in 1 .. Len(lista) : lista[j] = rows[j]

\* C24 witness: page 2 of size 2 was asked with offset 2, the ERP answered
\* three rows and the first two were returned
C24_Witness ==
    \E p \in DOMAIN proc :
        /\ IsListing(proc[p]) /\ Ended(proc[p])
        /\ proc[p].page = 2 /\ proc[p].pageSize = 2
        /\ proc[p].payload = [offsetPage |-> <<"2">>, limit |-> <<"2">>]
        /\ Len(proc[p].lastBody.items) = 3
        /\ proc[p].result.val.produtos = << Item(<<"5">>), Item(<<"3">>) >>

\* the cache key of the lookup a caller runs
KeyOf(pr) == IF IsPrice(pr) THEN PrecoKey(pr.codProd) ELSE StockKey(pr.codProd, pr.searchLocal)
Running(pr) == pr.pc \notin {"idle", "done"}
\* how far a call has come: its attempt, and the await it is at within it
MaxAttempts == 1 + EXEC_MAX_RETRIES
Rank(pr) ==
    IF pr.pc = "done" THEN 3 * (MaxAttempts + 1)
    ELSE 3 * pr.retryCount
         + (IF pr.pc = "login" THEN 0 ELSE IF pr.pc = "request" THEN 1 ELSE 2)

\* the answer that ended the lookup was one the function stores: a price read
\* from a 200 answer, or a stock answer with at least one row
Stored(pr) ==
    /\ pr.lastOutcome.status = 200 /\ ~Raised(pr)
    /\ IsPrice(pr) => ~PriceThrows(pr.lastBody)
    /\ ~IsPrice(pr) => (~MapearThrows(pr.lastBody) /\ HasRows(pr.lastBody))

\* C30: lookups of the same key may overlap (the witness shows two that both
\* missed and both asked the ERP).  Every lookup that runs completes: it is
\* never blocked by the other caller (the step that answers its request or
\* ends its wait is enabled) and each of its steps brings it nearer its end.
\* A lookup that completes with a value it stores leaves that value in the
\* cache under its key, whatever was there, and the cache changes in no other
\* step and under no other key: the cache holds the value written last.
C30_ConcurrentLookupsLastWriteWins ==
    /\ [][ \A p \in DOMAIN proc :
              (proc[p].pc = "request" /\ Ended(proc'[p]) /\ Stored(proc'[p])) =>
                  /\ KeyOf(proc'[p]) \in DOMAIN cache'
                  /\ cache'[KeyOf(proc'[p])].data = proc'[p].result.val ]_vars
    /\ [][ cache' # cache =>
              \E p \in DOMAIN proc :
                  /\ proc[p].pc = "request" /\ Ended(proc'[p])
                  /\ proc'[p].requests >= 1 /\ ~Raised(proc'[p])
                  /\ KeyOf(proc'[p]) \in DOMAIN cache'
                  /\ cache'[KeyOf(proc'[p])].data = proc'[p].result.val
                  /\ \A k \in DOMAIN cache : k # KeyOf(proc'[p]) =>
                         (k \in DOMAIN cache' /\ cache'[k] = cache[k]) ]_vars
    /\ [](\A p \in DOMAIN proc : Running(proc[p]) => ENABLED RaceStep(p))
    /\ [][ \A p \in DOMAIN proc :
              Running(proc[p]) =>
                  \/ proc'[p].pc = proc[p].pc /\ proc'[p].retryCount = proc[p].retryCount
                  \/ Rank(proc'[p]) > Rank(proc[p]) ]_vars

\* C30 witness: two price lookups of the same code both missed, both asked the
\* ERP, got different prices, and the cache holds one of the two
C30_Witness ==
    /\ IsPrice(proc[1]) /\ IsPrice(proc[2])
    /\ proc[1].codProd = proc[2].codProd
    /\ Ended(proc[1]) /\ Ended(proc[2])
    /\ proc[1].prior = Null /\ proc[2].prior = Null
    /\ proc[1].requests >= 1 /\ proc[2].requests >= 1
    /\ proc[1].lastOutcome.status = 200 /\ proc[2].lastOutcome.status = 200
    /\ proc[1].result # proc[2].result
    /\ cache[PrecoKey(proc[1].codProd)].data = proc[2].result.val

\* no call is waiting for an answer or for a timer
Quiet == \A p \in DOMAIN proc : ~Running(proc[p])

\* C31: calls of the executor that all start with the same cached token, which
\* the ERP has expired: each call gets at most one 401, each call that runs
\* ends, and ends with the response body (never with an error); once no call
\* is running the cached credential is the token of the latest login.
C31_UnsynchronizedRefreshTolerable ==
    /\ [](\A p \in DOMAIN proc :
             /\ proc[p].n401 <= 1
             /\ Ended(proc[p]) => (proc[p].result.status = "ok"
                                    /\ proc[p].result.val \in ExecBodies))
    /\ [](Quiet => cachedToken = nextToken - 1)
    /\ \A p \in RefreshCallers : (Running(proc[p]) ~> Ended(proc[p]))

\* C31 witness: every caller made a call, got one 401 for the expired token
\* and ended with the response; a token that a call was using was cleared
\* by the 401 of another call, so that more than one login was made
C31_Witness ==
    /\ \A p \in DOMAIN proc : Ended(proc[p]) /\ proc[p].n401 = 1 /\ ~Raised(proc[p])
    /\ nextToken > ExpiredToken + 2
    /\ \E p \in DOMAIN proc : proc[p].logins = 0
    /\ cachedToken = nextToken - 1

\* how far a call of the executor has come: its attempt, the logins made, and
\* the await it is at
ExecRank(pr) ==
    IF pr.pc = "done" THEN 1000 * MaxAttempts
    ELSE 1000 * pr.retryCount + 10 * pr.logins
         + (IF pr.pc = "login" THEN 0 ELSE IF pr.pc = "loginDelay" THEN 1
            ELSE IF pr.pc = "request" THEN 2 ELSE 3)

\* C32: whatever the ERP answers, a call of the executor sends at most 3
\* requests to the target URL and ends with the response body or with an
\* error.  It never retries forever: while it runs, the step that answers its
\* request or login or ends its wait is enabled, each of its steps brings it
\* nearer its end, and the way to the end is bounded.
C32_ExecuteTerminates ==
    /\ [](\A p \in DOMAIN proc :
             IsExec(proc[p]) =>
                 /\ proc[p].requests <= 3
                 /\ Ended(proc[p]) =>
                        \/ proc[p].result.status = "ok" /\ proc[p].result.val \in ExecBodies
                        \/ proc[p].result.status = "error" /\ proc[p].result.err # NoError)
    /\ [](\A p \in DOMAIN proc :
             /\ Running(proc[p]) => ENABLED ExecStep(p)
             /\ ExecRank(proc[p]) <= 1000 * MaxAttempts)
    /\ [][ \A p \in DOMAIN proc :
              Running(proc[p]) =>
                  /\ Position'[p] # Position[p]
                  /\ ExecRank(proc'[p]) > ExecRank(proc[p]) ]_vars

\* C32 witness: a call sent 3 requests, all answered with a transient error,
\* and failed
C32_Witness ==
    \E p \in DOMAIN proc :
        /\ IsExec(proc[p]) /\ Raised(proc[p])
        /\ proc[p].requests = 3 /\ proc[p].nTransient = EXEC_MAX_RETRIES

\* the tokens the login endpoint has returned so far
Issued == 1 .. (nextToken - 1)
\* this step, a login of p is answered with a token
LoginSucceeds(p) ==
    /\ proc[p].pc = "login" /\ proc'[p].lastLogin.type = "token"
    /\ nextToken' = nextToken + 1
\* this step, a login of p is answered otherwise and obterToken throws
LoginFails(p) ==
    /\ proc[p].pc = "login" /\ proc'[p].lastLogin.type # "token"
    /\ proc'[p].pc # "loginDelay"
\* this step, a request of p is answered 401 or 403
Rejected(p) ==
    /\ proc[p].pc = "request" /\ proc'[p].lastOutcome.type = "http"
    /\ proc'[p].lastOutcome.status \in {401, 403}
\* the credential is absent or a token a login returned, and every request
\* that is out carries a token a login returned
CredentialIsIssued ==
    /\ cachedToken = NoToken \/ cachedToken \in Issued
    /\ \A p \in DOMAIN proc : proc[p].pc = "request" => proc[p].token \in Issued

\* C33 (as claimed): the credential is absent or a token returned by a login,
\* every request carries a token returned by a login, and the credential
\* changes only from absent to a token on a login success and from a token to
\* absent on a 401 / 403 or a login failure.
C33_CredentialInvariant ==
    /\ []CredentialIsIssued
    /\ [][ cachedToken' # cachedToken =>
              \/ /\ cachedToken = NoToken /\ cachedToken' = nextToken
                 /\ \E p \in DOMAIN proc : LoginSucceeds(p)
              \/ /\ cachedToken # NoToken /\ cachedToken' = NoToken
                 /\ \E p \in DOMAIN proc : Rejected(p) \/ LoginFails(p) ]_vars

\* C33 (amended): as claimed, except that a login success sets the credential
\* to the token it returned whatever the credential was: absent, or the token
\* of a login that another caller completed in the meantime.
C33_CredentialInvariant_amended ==
    /\ []CredentialIsIssued
    /\ [][ cachedToken' # cachedToken =>
              \/ /\ cachedToken' = nextToken
                 /\ \E p \in DOMAIN proc : LoginSucceeds(p)
              \/ /\ cachedToken # NoToken /\ cachedToken' = NoToken
                 /\ \E p \in DOMAIN proc : Rejected(p) \/ LoginFails(p) ]_vars

\* C33 witness: two callers logged in at the same time; each sent its request
\* with the token of its own login, and the credential is the later token
C33_Witness ==
    /\ calls = 2 /\ nextToken = 3 /\ cachedToken = 2
    /\ \A p \in DOMAIN proc :
           /\ proc[p].pc = "request" /\ proc[p].logins = 1 /\ proc[p].n401 = 0
           /\ proc[p].retryCount = 0
    /\ {proc[p].token : p \in DOMAIN proc} = {1, 2}

\* the answer holds a first product to read the price from, or none at all
Readable(body) ==
    body.shape # "array" \/ body.items = <<>> \/ ~body.items[1].isnull
\* a price lookup that asked the ERP and ended with a failure: its last login
\* failed, or its last request was not answered 200, or the answer could not
\* be read
FailedLookup(pr) ==
    /\ IsPrice(pr) /\ Ended(pr) /\ ~FromCache(pr)
    /\ pr.lastOutcome.status # 200 \/ ~Readable(pr.lastBody)
\* the key k is written in this step
Written(k) == k \in DOMAIN cache' /\ (k \in DOMAIN cache => cache'[k] # cache[k])

\* C34: a price lookup that fails returns 0 and leaves no cache entry for its
\* code, and the next price lookup for that code contacts the ERP again; a
\* cache entry is written only in the step in which a price request was
\* answered 200 with a readable answer, under the key of that lookup and
\* with the price it returns.
C34_FailuresNeverCached ==
    /\ [](\A p \in DOMAIN proc :
             FailedLookup(proc[p]) =>
                 /\ proc[p].result = Ok(0)
                 /\ PrecoKey(proc[p].codProd) \notin DOMAIN cache)
    /\ [][ \A p \in DOMAIN proc :
              (FailedLookup(proc[p]) /\ calls' = calls + 1 /\ IsPrice(proc'[p])
                  /\ proc'[p].codProd = proc[p].codProd) =>
                  (Running(proc'[p]) /\ proc'[p].logins + proc'[p].requests >= 1) ]_vars
    /\ [][ \A k \in DOMAIN cache' :
              Written(k) =>
                  \E p \in DOMAIN proc :
                      /\ IsPrice(proc[p]) /\ proc[p].pc = "request" /\ Ended(proc'[p])
                      /\ proc'[p].lastOutcome.status = 200 /\ Readable(proc'[p].lastBody)
                      /\ k = PrecoKey(proc'[p].codProd)
                      /\ proc'[p].result = Ok(cache'[k].data) ]_vars

\* C34 witness: more than 10 minutes after a price was obtained for the code,
\* a lookup for it was answered 500 twice and returned 0; the cache holds
\* nothing for the code
C34_Witness ==
    \E p \in DOMAIN proc :
        /\ FailedLookup(proc[p])
        /\ proc[p].prior # Null /\ proc[p].prior.data.data # 0
        /\ proc[p].startAt - proc[p].prior.data.at > PRICE_TTL
        /\ proc[p].lastOutcome.status = 500 /\ proc[p].requests = 1 + PRICE_MAX_RETRIES
        /\ proc[p].result = Ok(0)
        /\ PrecoKey(proc[p].codProd) \notin DOMAIN cache

\* an HTTP error status other than 401, 403 and 5xx
IsOtherHttpError(o) ==
    o.type = "http" /\ o.status >= 400 /\ o.status < 500 /\ o.status \notin {401, 403}

\* C19: when the latest answer to an execute call is an HTTP error status
\* other than 401, 403 and 5xx, the call has ended (no retry is pending and
\* no further request is made), the cached credential is still the token the
\* request carried, and the error is the one thrown at line 136, carrying the
\* upstream statusMessage when there is one.
C19_OtherHttpErrorNotRetried ==
    \A p \in DOMAIN proc :
        LET pr == proc[p] IN
        (IsExec(pr) /\ IsOtherHttpError(pr.lastOutcome)) =>
            /\ Raised(pr)
            /\ pr.result.err.line = 136
            /\ pr.lastOutcome.statusMessage # "" =>
                   pr.result.err.detail = pr.lastOutcome.statusMessage
            /\ pr.lastOutcome.statusMessage = "" =>
                   pr.result.err.detail = pr.lastOutcome.detail
            /\ cachedToken = pr.token
            /\ cachedToken # NoToken

\* C19 witness: an execute call retried once after a 5xx and then answered 404
\* with a message
C19_Witness ==
    \E p \in DOMAIN proc :
        /\ IsExec(proc[p]) /\ Raised(proc[p])
        /\ proc[p].nTransient = 1
        /\ proc[p].lastOutcome = Http(404, "Registro nao encontrado")
        /\ proc[p].result.err = Error(136, "", "Registro nao encontrado")
        /\ cachedToken = proc[p].token

\* a step a running stock lookup takes that does not end it with a result
StockStepWithoutResult(p) ==
    /\ IsStock(proc[p]) /\ ~Ended(proc[p])
    /\ IsStock(proc'[p])
    /\ Ended(proc'[p]) => Raised(proc'[p])

----------------------------------------------------------------------------
(* app/api/sankhya/produtos/batch-info/route.ts: POST.  The handler runs     *)
(* from one await to the next in one step.  The two lookups of a code are    *)
(* promises that settle in any order: buscarPrecoProduto always fulfils (its *)
(* catch returns 0), consultarEstoqueProduto fulfils or rejects.  In         *)
(* SpecBatch the variable proc holds the state of the one request.           *)

\* const limit = Math.min(codigos.length, 10)
BATCH_LIMIT == 10

\* request bodies: not JSON, the JSON null, an object without codigos, an
\* object whose codigos is a string, and objects whose codigos is an array
BatchCode7 == <<"7">>
BatchCode8 == <<"8">>
BatchCode9 == <<"9">>
Codigos12 ==
    << BatchCode7, BatchCode8, BatchCode7, BatchCode8, BatchCode7, BatchCode8,
       BatchCode7, BatchCode8, BatchCode7, BatchCode8, BatchCode9, BatchCode9 >>
BatchBody(kind, codigos) == [kind |-> kind, codigos |-> codigos]
BatchBodies ==
    { BatchBody("invalid", <<>>), BatchBody("null", <<>>),
      BatchBody("missing", <<>>), BatchBody("string", <<>>),
      BatchBody("array", <<>>), BatchBody("array", << BatchCode7 >>),
      BatchBody("array", << BatchCode7, BatchCode8 >>),
      BatchBody("array", Codigos12) }

\* what the lookups settle with: a price, and a stock result or a rejection
BatchPrices == { 0, 1250 }
StockFulfilled(total) == [ok |-> TRUE, estoqueTotal |-> total]
StockRejected == [ok |-> FALSE, estoqueTotal |-> NaN]
BatchStocks == { StockFulfilled(Num(0)), StockFulfilled(Num(500)),
                 StockFulfilled(NaN), StockRejected }

\* x || 0 on a number
OrZero(n) == IF n.nan THEN 0 ELSE n.cents

\* results[codProd] = { preco, estoque } and { preco: 0, estoque: 0, error: true }
BatchEntry(preco, estoque) ==
    [preco |-> OrZero(Num(preco)), estoque |-> OrZero(estoque), error |-> FALSE]
BatchErrorEntry == [preco |-> 0, estoque |-> 0, error |-> TRUE]

NoResponse == [status |-> 0, results |-> EmptyMap, error |-> ""]
JsonResponse(status, results, error) ==
    [status |-> status, results |-> results, error |-> error]

\* the request: where the handler waits (pc), its locals (i, limit, results),
\* the promises of the current code (price, stock), the price lookups left in
\* flight by a rejected Promise.all (dangling), and the history of the
\* request: the codes whose lookups were started, what preceded the latest
\* start (gap), and whether the previous code's price lookup was then in flight
BatchIdle ==
    [pc |-> "idle", body |-> BatchBody("none", <<>>), i |-> 0, limit |-> 0,
     results |-> EmptyMap, price |-> "none", priceVal |-> 0,
     stock |-> "none", stockVal |-> StockRejected, dangling |-> {},
     response |-> NoResponse,
     started |-> <<>>, gap |-> "none", prevInFlight |-> FALSE, recorded |-> -1]

\* the head of the for loop, lines 22-30: start both lookups of codigos[i], or
\* leave the loop and answer, lines 50-54
BatchLoop(b, gap) ==
    IF b.i < b.limit
    THEN [b EXCEPT !.pc = "lookups", !.price = "pending", !.stock = "pending",
                   !.started = Append(@, b.body.codigos[b.i + 1]),
                   !.gap = gap, !.prevInFlight = (b.i - 1) \in b.dangling]
    ELSE [b EXCEPT !.pc = "responded", !.price = "none", !.stock = "none",
                   !.response = JsonResponse(200, b.results, "")]

\* Promise.all fulfilled, lines 32-40: record the entry, then the delay unless
\* this was the last code
BatchFulfilled(b) ==
    LET cod == b.body.codigos[b.i + 1]
        r == [b EXCEPT !.results = MapSet(@, cod, BatchEntry(b.priceVal, b.stockVal.estoqueTotal)),
                       !.recorded = b.i]
    IN IF b.i < b.limit - 1
       THEN [r EXCEPT !.pc = "delay", !.price = "none", !.stock = "none"]
       ELSE BatchLoop([r EXCEPT !.i = @ + 1], "none")

\* a rejected Promise.all that reaches the outer catch of lines 55-61
BatchRejected_Aborting(b) ==
    [b EXCEPT !.pc = "responded", !.price = "none", !.stock = "none",
              !.response = JsonResponse(500, EmptyMap, "error.message")]

\* Promise.all rejected, lines 41-47: record the error entry and go on
BatchRejected(b) ==
    LET cod == b.body.codigos[b.i + 1]
        r == [b EXCEPT !.results = MapSet(@, cod, BatchErrorEntry),
                       !.recorded = b.i,
                       !.dangling = IF b.price = "pending" THEN @ \cup {b.i} ELSE @]
    IN BatchLoop([r EXCEPT !.i = @ + 1], "none")

BatchUnchanged == UNCHANGED <<cacheVars, redisVars, cachedToken, nextToken, calls>>

\* POST, lines 8-20
POST(body) ==
    /\ proc.pc = "idle"
    /\ proc' =
         LET b == [proc EXCEPT !.body = body] IN
         IF body.kind \in {"invalid", "null"}
         THEN [b EXCEPT !.pc = "responded",
                        !.response = JsonResponse(500, EmptyMap, "error.message")]
         ELSE IF body.kind # "array"
         THEN [b EXCEPT !.pc = "responded",
                        !.response = JsonResponse(400, EmptyMap,
                                         "Codigos de produtos sao obrigatorios")]
         ELSE BatchLoop([b EXCEPT !.limit = Min(Len(body.codigos), BATCH_LIMIT)], "none")
    /\ BatchUnchanged

\* buscarPrecoProduto of the current code fulfils
PriceSettles(v) ==
    /\ proc.pc = "lookups" /\ proc.price = "pending"
    /\ proc' =
         LET b == [proc EXCEPT !.price = "done", !.priceVal = v] IN
         IF b.stock = "done" THEN BatchFulfilled(b) ELSE b
    /\ BatchUnchanged

\* consultarEstoqueProduto of the current code fulfils or rejects
StockSettles(o) ==
    /\ proc.pc = "lookups" /\ proc.stock = "pending"
    /\ proc' =
         LET b == [proc EXCEPT !.stock = "done", !.stockVal = o] IN
         IF ~o.ok THEN BatchRejected(b)
         ELSE IF b.price = "done" THEN BatchFulfilled(b)
         ELSE b
    /\ BatchUnchanged

\* the 100 ms of line 39 are over: i++ and the next turn of the loop
DelayOver ==
    /\ proc.pc = "delay"
    /\ proc' = BatchLoop([proc EXCEPT !.i = @ + 1], "delay")
    /\ BatchUnchanged

\* a price lookup left behind by a rejected Promise.all fulfils; nobody reads it
DanglingSettles(j) ==
    /\ j \in proc.dangling
    /\ proc' = [proc EXCEPT !.dangling = @ \ {j}]
    /\ BatchUnchanged

InitBatch == InitCommon /\ proc = BatchIdle

NextBatch ==
    \/ \E body \in BatchBodies : POST(body)
    \/ \E v \in BatchPrices : PriceSettles(v)
    \/ \E o \in BatchStocks : StockSettles(o)
    \/ DelayOver
    \/ \E j \in 0 .. (BATCH_LIMIT - 1) : DanglingSettles(j)

SpecBatch == InitBatch /\ [][NextBatch]_vars

----------------------------------------------------------------------------
(* Claims about the batch route *)

\* the codes at the first min(n, 10) positions of the list
FirstCodes(codigos) == SubSeq(codigos, 1, Min(Len(codigos), 10))
SeqRange(q) == { q[j] : j \in 1 .. Len(q) }

\* C13 (as claimed): for a list of n codes, lookups are started for the codes
\* at the first min(n, 10) positions, in that order, and for no other; the
\* response (200) has an entry for each of them and for no other code; a
\* request whose code list is missing or is not an array is answered 400 and
\* starts no lookup.
C13_FirstTenCodesOnly ==
    proc.pc # "idle" =>
        IF proc.body.kind = "array"
        THEN LET first == FirstCodes(proc.body.codigos) IN
             /\ Len(proc.started) <= Len(first)
             /\ proc.started = SubSeq(first, 1, Len(proc.started))
             /\ proc.pc = "responded" =>
                    /\ proc.started = first
                    /\ proc.response.status = 200
                    /\ DOMAIN proc.response.results = SeqRange(first)
        ELSE /\ proc.started = <<>>
             /\ proc.pc = "responded" => proc.response.status = 400

\* the step in which the handler records the entry of a code
BatchRecords == proc'.recorded # proc.recorded

\* C14: when the stock lookup of a code rejects, the entry recorded for that
\* code is price 0, stock 0, error flag set; otherwise it is the price and the
\* stock total the code's own lookups settled with.  Recording an entry changes
\* the entry of no other code, the handler goes on to the next code, and a
\* request with a code list is always answered 200.
C14_FailureIsolation ==
    /\ [](proc.pc = "responded" /\ proc.body.kind = "array" => proc.response.status = 200)
    /\ [][ BatchRecords =>
             LET cod == proc.body.codigos[proc.i + 1]
                 total == proc'.stockVal.estoqueTotal
             IN
             /\ proc'.recorded = proc.i
             /\ DOMAIN proc'.results = DOMAIN proc.results \cup {cod}
             /\ \A c \in DOMAIN proc.results \ {cod} : proc'.results[c] = proc.results[c]
             /\ proc'.results[cod] =
                    IF proc'.stockVal.ok
                    THEN [preco |-> proc'.priceVal,
                          estoque |-> IF total.nan THEN 0 ELSE total.cents,
                          error |-> FALSE]
                    ELSE [preco |-> 0, estoque |-> 0, error |-> TRUE]
             /\ IF proc.i + 1 < proc.limit
                THEN proc'.pc \in {"delay", "lookups"}
                ELSE proc'.pc = "responded"
      ]_vars

\* C14 witness: a batch of two codes answered 200 in which the first code
\* failed and the second got its price and stock
C14_Witness ==
    /\ proc.pc = "responded"
    /\ proc.body = BatchBody("array", << BatchCode7, BatchCode8 >>)
    /\ proc.response.status = 200
    /\ proc.response.results[BatchCode7] = [preco |-> 0, estoque |-> 0, error |-> TRUE]
    /\ proc.response.results[BatchCode8] = [preco |-> 1250, estoque |-> 500, error |-> FALSE]

\* C15 (as claimed): the lookups of a code other than the first start after
\* both lookups of the code before it have finished and the delay has then
\* been waited; the two lookups of a code are started together.
C15_SequencedWithDelay ==
    /\ []((proc.pc = "lookups" /\ proc.i > 0) =>
              (proc.gap = "delay" /\ ~proc.prevInFlight))
    /\ [][ proc'.started # proc.started =>
             (proc'.price = "pending" /\ proc'.stock = "pending") ]_vars

----------------------------------------------------------------------------
(* mapearEntidades (produtos-service.ts): the normalization of a loadRecords *)
(* answer.  A value is a string, a number or undefined; an object is a       *)
(* function from its property names to values.                               *)

\* most rows of an entities.entity array
MaxRows == 2

Str(s) == [t |-> "string", s |-> s, n |-> 0]
Numb(n) == [t |-> "number", s |-> <<>>, n |-> n]
Undefined == [t |-> "undefined", s |-> <<>>, n |-> 0]

\* JS truthiness of a value: '' , 0 and undefined are falsy
Truthy(v) == (v.t = "string" /\ v.s # <<>>) \/ (v.t = "number" /\ v.n # 0)

\* String(v)
StringOf(v) ==
    IF v.t = "string" THEN v.s
    ELSE IF v.t = "number" THEN NatToString(v.n)
    ELSE <<"u", "n", "d", "e", "f", "i", "n", "e", "d">>

\* a row of the answer: null, or an object whose slots f0, f1, ... are objects
\* { $: value }; slots maps the index of each slot the row has to its "$"
\* (undefined for the slot {} the ERP sends for an empty field)
NullRow == [null |-> TRUE, slots |-> EmptyMap]
Row(slots) == [null |-> FALSE, slots |-> slots]
Slot0Values == { Str(<<"x">>), Str(<<"0">>), Numb(0), Undefined }
Slot1Values == { Str(<<"y">>), Undefined }
RowsWith(d) ==
    { Row(f) : f \in [d -> Slot0Values \cup Slot1Values] }
ObjectRows ==
    { r \in RowsWith({}) \cup RowsWith({0}) \cup RowsWith({1}) \cup RowsWith({0, 1}) :
        /\ 0 \in DOMAIN r.slots => r.slots[0] \in Slot0Values
        /\ 1 \in DOMAIN r.slots => r.slots[1] \in Slot1Values }
NormRows == ObjectRows \cup { NullRow }

\* entities.metadata.fields.field, as the list of the names
FieldLists ==
    { <<>>, <<"A">>, <<"A", "B">>, <<"CODPROD">>, <<"CODPROD", "A">> }

\* entities: the field names and entity, which is an array of rows or one row
Entities(fields, array, entity) == [fields |-> fields, array |-> array, entity |-> entity]
RowSeqs == UNION { [1 .. m -> NormRows] : m \in 0 .. MaxRows }
NormInputs ==
    { Entities(f, TRUE, rows) : f \in FieldLists, rows \in RowSeqs }
    \cup { Entities(f, FALSE, r) : f \in FieldLists, r \in NormRows }

\* Array.isArray(entities.entity) ? entities.entity : [entities.entity]
EntityArray(entities) == IF entities.array THEN entities.entity ELSE << entities.entity >>

\* the loop of lines 149-156 started at slot f1 instead of f0
RECURSIVE CleanObject_SkippingFirst(_, _, _)
CleanObject_SkippingFirst(rawEntity, fieldNames, n) ==
    IF n <= 1 THEN EmptyMap
    ELSE LET o == CleanObject_SkippingFirst(rawEntity, fieldNames, n - 1) IN
         IF (n - 1) \in DOMAIN rawEntity.slots
         THEN MapSet(o, fieldNames[n], rawEntity.slots[n - 1])
         ELSE o

\* lines 147-156: cleanObject after the first n field names
RECURSIVE CleanObject(_, _, _)
CleanObject(rawEntity, fieldNames, n) ==
    IF n = 0 THEN EmptyMap
    ELSE LET o == CleanObject(rawEntity, fieldNames, n - 1) IN
         IF (n - 1) \in DOMAIN rawEntity.slots
         THEN MapSet(o, fieldNames[n], rawEntity.slots[n - 1])
         ELSE o

\* line 158: cleanObject.CODPROD ? String(cleanObject.CODPROD) : String(index)
IdOf(cleanObject, index) ==
    IF "CODPROD" \in DOMAIN cleanObject /\ Truthy(cleanObject["CODPROD"])
    THEN Str(StringOf(cleanObject["CODPROD"]))
    ELSE Str(NatToString(index))

\* lines 146-160: the record of one row
MapRow(rawEntity, fieldNames, index) ==
    LET cleanObject == CleanObject(rawEntity, fieldNames, Len(fieldNames)) IN
    MapSet(cleanObject, "_id", IdOf(cleanObject, index))

\* rawEntity[fieldKey] on a null row throws a TypeError (line 153)
RowThrows(rawEntity, fieldNames) == rawEntity.null /\ Len(fieldNames) > 0

\* mapearEntidades(entities): the records, or a TypeError
mapearEntidades(entities) ==
    LET entityArray == EntityArray(entities) IN
    IF \E j \in 1 .. Len(entityArray) : RowThrows(entityArray[j], entities.fields)
    THEN [threw |-> TRUE, records |-> <<>>]
    ELSE [threw |-> FALSE,
          records |-> [j \in 1 .. Len(entityArray) |->
                          MapRow(entityArray[j], entities.fields, j - 1)]]

NoRecords == [threw |-> FALSE, records |-> <<>>]

\* a call of mapearEntidades on one answer
CallMapearEntidades ==
    /\ proc.pc = "call"
    /\ proc' = [proc EXCEPT !.pc = "done", !.out = mapearEntidades(proc.entities)]
    /\ UNCHANGED <<cacheVars, redisVars, cachedToken, nextToken, calls>>

InitNorm ==
    /\ InitCommon
    /\ proc \in { [pc |-> "call", entities |-> e, out |-> NoRecords] : e \in NormInputs }

NextNorm == CallMapearEntidades

SpecNorm == InitNorm /\ [][NextNorm]_vars

----------------------------------------------------------------------------
(* The orders route, GET /api/pedidos (route.ts): it resolves the user from  *)
(* the userId parameter or the "user" cookie and lists the orders the user   *)
(* may see.  usersService.getById, listarPedidos and listarPedidosPorGerente *)
(* are awaited: each answers or throws.                                      *)

UpperChars == <<"A", "B", "C", "D", "E", "F", "G", "H", "I", "J", "K", "L", "M", "N", "O", "P", "Q", "R", "S", "T", "U", "V", "W", "X", "Y", "Z">>
LowerChars == <<"a", "b", "c", "d", "e", "f", "g", "h", "i", "j", "k", "l", "m", "n", "o", "p", "q", "r", "s", "t", "u", "v", "w", "x", "y", "z">>
\* String.prototype.toLowerCase
ToLowerCase(w) ==
    [j \in 1 .. Len(w) |->
        IF \E i \in 1 .. 26 : UpperChars[i] = w[j]
        THEN LowerChars[CHOOSE i \in 1 .. 26 : UpperChars[i] = w[j]]
        ELSE w[j]]

Administrador == <<"a", "d", "m", "i", "n", "i", "s", "t", "r", "a", "d", "o", "r">>
Gerente == <<"g", "e", "r", "e", "n", "t", "e">>
Vendedor == <<"v", "e", "n", "d", "e", "d", "o", "r">>

\* a user record, as usersService or the cookie gives it; NoUser is null / undefined
User(tipo, role, codVendedor) ==
    [null |-> FALSE, tipo |-> tipo, role |-> role, codVendedor |-> codVendedor]
NoUser == [null |-> TRUE, tipo |-> Undefined, role |-> Undefined, codVendedor |-> Undefined]
Tipos == { Undefined, Str(Administrador), Str(Gerente), Str(Vendedor),
           Str(<<"A", "d", "m", "i", "n", "i", "s", "t", "r", "a", "d", "o", "r">>) }
Roles == { Undefined, Str(<<"A", "D", "M", "I", "N", "I", "S", "T", "R", "A", "D", "O", "R">>), Str(Vendedor) }
SellerCodes == { Undefined, Numb(0), Numb(12) }
Users == { User(t, r, c) : t \in Tipos, r \in Roles, c \in SellerCodes }

\* a query parameter: searchParams.get gives null when it is absent
NoParam == [given |-> FALSE, s |-> <<>>]
Param(w) == [given |-> TRUE, s |-> w]
\* searchParams.get(name) || undefined
ParamOrUndefined(q) == IF q.given /\ q.s # <<>> THEN Str(q.s) ELSE Undefined

UserIds == { NoParam, Param(<<>>), Param(<<"7">>) }
DataInicios == { NoParam, Param(<<>>), Param(<<"2", "0", "2", "4", "-", "0", "1", "-", "0", "1">>) }
DataFims == { NoParam, Param(<<"2", "0", "2", "4", "-", "0", "1", "-", "3", "1">>) }

\* the "user" cookie: absent, not JSON, or the JSON of null or of a user
Cookie(kind, user) == [kind |-> kind, user |-> user]
Cookies ==
    { Cookie("absent", NoUser), Cookie("invalid", NoUser), Cookie("json", NoUser) }
    \cup { Cookie("json", u) : u \in Users }
\* lines 23-33: usuario after the cookie branch
UserOfCookie(c) == IF c.kind = "json" THEN c.user ELSE NoUser

OrdersRequests ==
    { [userId |-> i, cookie |-> c, dataInicio |-> a, dataFim |-> b] :
        i \in UserIds, c \in Cookies, a \in DataInicios, b \in DataFims }

\* line 49: usuario.tipo || usuario.role?.toLowerCase()
TipoUsuario(usuario) ==
    IF Truthy(usuario.tipo) THEN usuario.tipo
    ELSE IF usuario.role = Undefined THEN Undefined
    ELSE Str(ToLowerCase(usuario.role.s))

\* a call of the order listing, and the response of the route
NoQuery == [fn |-> "none", codVendedor |-> Undefined,
            dataInicio |-> Undefined, dataFim |-> Undefined]
Query(fn, codVendedor, dataInicio, dataFim) ==
    [fn |-> fn, codVendedor |-> codVendedor, dataInicio |-> dataInicio, dataFim |-> dataFim]
NoResponse29 == [status |-> 0, body |-> "none"]
OrdersResponse(status, body) == [status |-> status, body |-> body]

OrdersIdle ==
    [pc |-> "idle", req |-> [userId |-> NoParam, cookie |-> Cookie("absent", NoUser),
                             dataInicio |-> NoParam, dataFim |-> NoParam],
     usuario |-> NoUser, query |-> NoQuery, response |-> NoResponse29]

\* the branch that lets a vendedor without a seller code list every order
AfterUser_VendorUnfiltered(o, usuario) ==
    LET tipoUsuario == TipoUsuario(usuario)
        dataInicio == ParamOrUndefined(o.req.dataInicio)
        dataFim == ParamOrUndefined(o.req.dataFim)
        o1 == [o EXCEPT !.usuario = usuario]
    IN
    IF usuario.null
    THEN [o1 EXCEPT !.pc = "done", !.response = OrdersResponse(401, "error")]
    ELSE IF tipoUsuario = Str(Administrador) \/ tipoUsuario = Str(Vendedor)
    THEN [o1 EXCEPT !.pc = "pedidos",
             !.query = Query("listarPedidos",
                             IF Truthy(usuario.codVendedor) /\ tipoUsuario = Str(Vendedor)
                             THEN Str(StringOf(usuario.codVendedor)) ELSE Undefined,
                             dataInicio, dataFim)]
    ELSE [o1 EXCEPT !.pc = "done", !.response = OrdersResponse(200, "empty")]

\* lines 36-72, once usuario is known: 401, or the listing of the user's type
AfterUser(o, usuario) ==
    LET tipoUsuario == TipoUsuario(usuario)
        dataInicio == ParamOrUndefined(o.req.dataInicio)
        dataFim == ParamOrUndefined(o.req.dataFim)
        o1 == [o EXCEPT !.usuario = usuario]
    IN
    IF usuario.null
    THEN [o1 EXCEPT !.pc = "done", !.response = OrdersResponse(401, "error")]
    ELSE IF tipoUsuario = Str(Administrador)
    THEN [o1 EXCEPT !.pc = "pedidos",
             !.query = Query("listarPedidos", Undefined, dataInicio, dataFim)]
    ELSE IF tipoUsuario = Str(Gerente) /\ Truthy(usuario.codVendedor)
    THEN [o1 EXCEPT !.pc = "pedidos",
             !.query = Query("listarPedidosPorGerente",
                             Str(StringOf(usuario.codVendedor)), dataInicio, dataFim)]
    ELSE IF tipoUsuario = Str(Vendedor) /\ Truthy(usuario.codVendedor)
    THEN [o1 EXCEPT !.pc = "pedidos",
             !.query = Query("listarPedidos",
                             Str(StringOf(usuario.codVendedor)), dataInicio, dataFim)]
    ELSE [o1 EXCEPT !.pc = "done", !.response = OrdersResponse(200, "empty")]

OrdersUnchanged == UNCHANGED <<cacheVars, redisVars, cachedToken, nextToken, calls>>

\* GET, lines 8-34: with a userId the user is asked of usersService, else the
\* cookie is read
OrdersGET(req) ==
    /\ proc.pc = "idle"
    /\ proc' = IF req.userId.given /\ req.userId.s # <<>>
               THEN [proc EXCEPT !.pc = "getById", !.req = req]
               ELSE AfterUser([proc EXCEPT !.req = req], UserOfCookie(req.cookie))
    /\ OrdersUnchanged

\* usersService.getById answers a user or nothing, or throws (line 20, 73-78)
GetByIdSettles(ok, usuario) ==
    /\ proc.pc = "getById"
    /\ proc' = IF ok THEN AfterUser(proc, usuario)
               ELSE [proc EXCEPT !.pc = "done", !.response = OrdersResponse(500, "error")]
    /\ OrdersUnchanged

\* the order listing answers or throws (lines 54-72, 73-78)
PedidosSettle(ok) ==
    /\ proc.pc = "pedidos"
    /\ proc' = [proc EXCEPT !.pc = "done",
                   !.response = IF ok THEN OrdersResponse(200, "pedidos")
                                ELSE OrdersResponse(500, "error")]
    /\ OrdersUnchanged

InitOrders == InitCommon /\ proc = OrdersIdle

NextOrders ==
    \/ \E req \in OrdersRequests : OrdersGET(req)
    \/ \E u \in Users \cup { NoUser } : GetByIdSettles(TRUE, u)
    \/ GetByIdSettles(FALSE, NoUser)
    \/ \E ok \in BOOLEAN : PedidosSettle(ok)

SpecOrders == InitOrders /\ [][NextOrders]_vars

----------------------------------------------------------------------------
(* The products table (ProductsTable): page, applied search, the load guard *)

\* what is typed in the search fields, and the totalPages an answer carries
TableNames == { <<>>, <<"a", "b">> }
TableCodes == { <<>>, <<"7">> }
TablePages == 1 .. MaxPage

\* loadProducts, lines 94-108: the url it fetches, from the values of the
\* render it was created in
NoUrl == [endpoint |-> "none", q |-> <<>>, page |-> 0, searchName |-> <<>>, searchCode |-> <<>>]
FetchUrl(page, name, code) ==
    LET searchQuery == IF name # <<>> THEN name ELSE code IN
    IF searchQuery # <<>> /\ Len(searchQuery) >= 2
    THEN [endpoint |-> "search", q |-> searchQuery, page |-> 0,
          searchName |-> <<>>, searchCode |-> <<>>]
    ELSE [endpoint |-> "produtos", q |-> <<>>, page |-> page,
          searchName |-> name, searchCode |-> code]
UrlOf(t) == FetchUrl(t.currentPage, t.appliedSearchName, t.appliedSearchCode)

\* products: the rows shown, named by the url they were loaded from
NoProducts == [loaded |-> FALSE, from |-> NoUrl]
ProductsOf(url) == [loaded |-> TRUE, from |-> url]

\* the effect, lines 48-59: it runs after a render in which currentPage,
\* appliedSearchName or appliedSearchCode changed
useEffect(old, new) ==
    IF <<new.currentPage, new.appliedSearchName, new.appliedSearchCode>>
         = <<old.currentPage, old.appliedSearchName, old.appliedSearchCode>>
    THEN new
    ELSE IF new.loadingRef THEN new
    ELSE [new EXCEPT !.loadingRef = TRUE, !.isLoading = TRUE,
                     !.fetch = UrlOf(new), !.lastLoad = UrlOf(new)]

\* the component after its first render and effect: the first load is out
TableMounted ==
    [currentPage |-> 1, appliedSearchName |-> <<>>, appliedSearchCode |-> <<>>,
     totalPages |-> 1, products |-> NoProducts, isLoading |-> TRUE,
     loadingRef |-> TRUE, fetch |-> FetchUrl(1, <<>>, <<>>),
     lastLoad |-> FetchUrl(1, <<>>, <<>>)]

TableUnchanged ==
    UNCHANGED <<now, cache, lastSet, ret, memoryCache, redis, useRedis,
                cachedToken, nextToken, calls>>

\* lines 61-65
handleSearch(searchName, searchCode) ==
    /\ proc' = useEffect(proc, [proc EXCEPT !.appliedSearchName = searchName,
                                            !.appliedSearchCode = searchCode,
                                            !.currentPage = 1])
    /\ TableUnchanged

\* lines 73-77
handlePreviousPage ==
    /\ proc.currentPage > 1
    /\ proc' = useEffect(proc, [proc EXCEPT !.currentPage = @ - 1])
    /\ TableUnchanged

\* lines 79-83
handleNextPage ==
    /\ proc.currentPage < proc.totalPages
    /\ proc' = useEffect(proc, [proc EXCEPT !.currentPage = @ + 1])
    /\ TableUnchanged

\* the fetch of loadProducts settles, lines 124-164, and then the finally of
\* line 56: with an answer that is ok, or with an error status or an abort
FetchSettles(ok, totalPages) ==
    /\ proc.fetch # NoUrl
    /\ proc' = [proc EXCEPT
                    !.products = IF ok THEN ProductsOf(proc.fetch) ELSE NoProducts,
                    !.totalPages = IF ok THEN totalPages ELSE @,
                    !.isLoading = FALSE,
                    !.loadingRef = FALSE,
                    !.fetch = NoUrl]
    /\ TableUnchanged

InitTable == InitCommon /\ proc = TableMounted

NextTable ==
    \/ \E n \in TableNames, c \in TableCodes : handleSearch(n, c)
    \/ handlePreviousPage
    \/ handleNextPage
    \/ \E tp \in TablePages : FetchSettles(TRUE, tp)
    \/ FetchSettles(FALSE, 1)

SpecTable == InitTable /\ [][NextTable]_vars

----------------------------------------------------------------------------
(* Claims about the normalization *)

\* the rows are all objects
AllObjects(entities) ==
    \A j \in 1 .. Len(EntityArray(entities)) : ~EntityArray(entities)[j].null

HasCode(rec) == "CODPROD" \in DOMAIN rec /\ rec["CODPROD"] # Undefined

\* C22 (as claimed): every record returned has an _id that is a string: the
\* string form of its CODPROD when it has one, a code of 0 or "0" included,
\* and the string form of the row's zero-based position otherwise.
C22_IdentityField ==
    proc.pc = "done" =>
        \A j \in 1 .. Len(proc.out.records) :
            LET rec == proc.out.records[j] IN
            /\ "_id" \in DOMAIN rec
            /\ rec["_id"].t = "string"
            /\ rec["_id"].s = IF HasCode(rec) THEN StringOf(rec["CODPROD"])
                              ELSE NatToString(j - 1)

\* C23 (as claimed): mapearEntidades raises no error and returns a record for
\* each row, whatever the rows: with slots missing, empty, or null.
C23_NeverFailsOnMalformedRows ==
    proc.pc = "done" =>
        /\ ~proc.out.threw
        /\ Len(proc.out.records) = Len(EntityArray(proc.entities))

----------------------------------------------------------------------------
(* Claims about the stock total *)

\* the quantity the claim gives a row: its number, 0 when missing or invalid
ClaimedQuantity(item) ==
    IF item.isnull \/ ParseFloat(item.valor).nan THEN 0 ELSE ParseFloat(item.valor).cents
RECURSIVE ClaimedTotal(_)
ClaimedTotal(items) ==
    IF items = <<>> THEN 0
    ELSE ClaimedTotal(Tail(items)) + ClaimedQuantity(Head(items))

\* C25 (as claimed): estoqueTotal is the sum of the rows' quantities, a row
\* whose quantity is missing or not a valid number counting 0 (3 and 2.5 give
\* 5.5); the total is never an invalid number.
C25_StockTotal ==
    proc.pc = "done" =>
        /\ ~proc.out.estoqueTotal.nan
        /\ proc.out.estoqueTotal.cents = ClaimedTotal(proc.rows)

----------------------------------------------------------------------------
(* Claims about the orders route *)

\* the user's type as the claim reads it: tipo, or else role whatever its case
IsOfType(usuario, tipo) ==
    ~usuario.null /\
    (usuario.tipo = Str(tipo)
       \/ (~Truthy(usuario.tipo) /\ usuario.role # Undefined
             /\ ToLowerCase(usuario.role.s) = tipo))
HasSellerCode(usuario) == ~usuario.null /\ Truthy(usuario.codVendedor)
Queried == proc.query # NoQuery
\* the date bound of the request: an absent or empty parameter is no bound
Bound(q) == IF q.given /\ q.s # <<>> THEN Str(q.s) ELSE Undefined

\* C29: the route lists orders without a seller filter only for a user whose
\* type is administrador; a vendedor with a seller code is queried with that
\* code; a user of another type, or a gerente or vendedor without a seller
\* code, gets the empty list and no query; a request whose user is not found
\* gets 401 and no query; every query carries the date bounds of the request.
C29_OrdersAuthorization ==
    LET u == proc.usuario
        resolved == proc.pc \in {"pedidos", "done"} /\ proc.response.status # 500
    IN
    /\ (Queried /\ proc.query.codVendedor = Undefined) => IsOfType(u, Administrador)
    /\ (resolved /\ IsOfType(u, Vendedor) /\ HasSellerCode(u)) =>
           /\ Queried
           /\ proc.query.fn = "listarPedidos"
           /\ proc.query.codVendedor = Str(StringOf(u.codVendedor))
    /\ (resolved /\ ~u.null /\ ~IsOfType(u, Administrador)
          /\ ~(HasSellerCode(u) /\ (IsOfType(u, Gerente) \/ IsOfType(u, Vendedor)))) =>
           (~Queried /\ proc.response = OrdersResponse(200, "empty"))
    /\ (proc.pc = "done" /\ u.null /\ proc.response.status # 500) =>
           (~Queried /\ proc.response.status = 401)
    /\ Queried =>
           /\ proc.query.dataInicio = Bound(proc.req.dataInicio)
           /\ proc.query.dataFim = Bound(proc.req.dataFim)

\* C29 witness: a vendedor with seller code 12 asking for a date range got
\* the orders of seller "12" in that range
C29_Witness ==
    /\ proc.pc = "done"
    /\ proc.response = OrdersResponse(200, "pedidos")
    /\ proc.usuario.tipo = Str(Vendedor)
    /\ proc.usuario.codVendedor = Numb(12)
    /\ proc.query = Query("listarPedidos", Str(<<"1", "2">>),
                          Bound(proc.req.dataInicio), Str(proc.req.dataFim.s))
    /\ proc.req.dataInicio.s # <<>> /\ proc.req.dataFim.given

----------------------------------------------------------------------------
(* Claims about the products table *)

\* C35 (as claimed): when no load is in flight, the latest load made was for
\* the current page and applied search, and the products shown, if any, were
\* loaded for them: a change made while a load was in flight is not lost.
C35_LoadGuardLosesNoChange ==
    ~proc.loadingRef =>
        /\ proc.lastLoad = UrlOf(proc)
        /\ proc.products.loaded => proc.products.from = UrlOf(proc)

====
